---- MODULE Spec2Model ----
(***************************************************************************)
(* Clinic patient-management server (Express + better-sqlite3) and its     *)
(* React client, which reads from and writes to Supabase.                  *)
(*                                                                         *)
(* The state is the SQLite database clinic.db (tables patients, visits,    *)
(* users, the AUTOINCREMENT counters and the columns of each table), the   *)
(* transaction that DELETE /api/patients/:id runs, the last HTTP response, *)
(* the tables patients and visits of the Supabase project, and the state   *)
(* of the client's App component with its fetches in flight.               *)
(* Every route handler is one action; the handler of                       *)
(* DELETE /api/patients/:id is split at its transaction's statements so    *)
(* that its atomicity can be stated, and fetchSummary and fetchPatients    *)
(* are split at their awaits, where responses of other calls may arrive.   *)
(***************************************************************************)
EXTENDS Integers, Sequences, FiniteSets, TLC

VARIABLES
    patients,      \* rows of table patients
    visits,        \* rows of table visits
    users,         \* rows of table users
    seq,           \* sqlite_sequence: the last AUTOINCREMENT id of each table
    txn,           \* the transaction of DELETE /api/patients/:id, its working copy
    resp,          \* the last HTTP response, with the request it answers
    foreign_keys,  \* PRAGMA foreign_keys of the connection (set by the build)
    now,           \* the server clock, <<year, month>>
    ever_visited,  \* history: ids of the patients that had a visit row inserted
    supabase_patients,  \* rows of table patients of the Supabase project
    supabase_visits,    \* rows of table visits of the Supabase project
    supabase_seq,       \* the last generated id of each Supabase table
    reportMonth,        \* client state reportMonth, a digit string
    reportYear,         \* client state reportYear, a digit string
    summary,            \* client state summary, with the window it was fetched for
    searchQuery,        \* client state searchQuery
    clientPatients,     \* client state patients: the list on display
    fetching,           \* the calls of fetchSummary and fetchPatients in flight
    fetch_seq,          \* history: the number of such calls made so far
    columns,            \* the columns of each table of clinic.db
    startups,           \* history: the times ensureColumns has run on clinic.db
    credentials         \* history: the username and password each user row was made from

\* The store of the client.
supabase == <<supabase_patients, supabase_visits, supabase_seq>>

\* The state of the client's App component.
client == <<reportMonth, reportYear, summary, searchQuery, clientPatients,
            fetching, fetch_seq>>

\* The schema of clinic.db.
schema == <<columns, startups>>

vars == <<patients, visits, users, seq, txn, resp, foreign_keys, now, ever_visited,
          supabase, client, schema, credentials>>

----------------------------------------------------------------------------
(* Bounds of the model. *)

MaxPatients == 2    \* patient rows ever inserted
MaxVisits == 2      \* visit rows ever inserted
MaxUsers == 2       \* user rows ever inserted
MaxTicks == 2       \* months the clock advances

----------------------------------------------------------------------------
(* JavaScript and SQL values.  Text is a string; a key that is absent from *)
(* the JSON body destructures to undefined, JSON null is null.  A          *)
(* timestamp is <<year, month>>, and <<>> when it is absent.               *)

Undefined == "<undefined>"
Null == "<null>"
NullId == 0 - 1
UndefinedId == 0 - 2
NoDate == <<>>

\* The month the model's clock starts in.
StartDate == <<2024, 12>>

\* JavaScript's ToBoolean on a text value, as `a || b` uses it.
Falsy(v) == v \in {Undefined, Null, ""}

\* better-sqlite3 binds numbers, strings, bigints, buffers and null; it
\* throws a TypeError on undefined.
Bindable(v) == v # Undefined

Digits == {"0", "1", "2", "3", "4", "5", "6", "7", "8", "9"}

DigitVal(c) ==
    CASE c = "0" -> 0 [] c = "1" -> 1 [] c = "2" -> 2 [] c = "3" -> 3
      [] c = "4" -> 4 [] c = "5" -> 5 [] c = "6" -> 6 [] c = "7" -> 7
      [] c = "8" -> 8 [] c = "9" -> 9

\* The value of a digit sequence, base 10.
RECURSIVE Decimal(_)
Decimal(s) ==
    IF s = <<>> THEN 0
    ELSE 10 * Decimal(SubSeq(s, 1, Len(s) - 1)) + DigitVal(s[Len(s)])

\* The longest prefix of s made of digits.
RECURSIVE DigitPrefix(_)
DigitPrefix(s) ==
    IF s = <<>> \/ s[1] \notin Digits THEN <<>>
    ELSE <<s[1]>> \o DigitPrefix(Tail(s))

NaN == 0 - 3

\* parseInt(id): the leading digits of the string, NaN when there are none.
ParseInt(s) == IF DigitPrefix(s) = <<>> THEN NaN ELSE Decimal(DigitPrefix(s))

\* `WHERE id = ?` with a text parameter against the INTEGER PRIMARY KEY: the
\* text takes the column's affinity only when the whole of it is a number.
SqlInteger(s) ==
    IF s # <<>> /\ DigitPrefix(s) = s THEN Decimal(s) ELSE NaN

----------------------------------------------------------------------------
(* The store. *)

PatientIds == {p.id : p \in patients}
VisitIds == {v.id : v \in visits}
VisitsOf(vs, pid) == {v \in vs : v.patient_id = pid}

NoTxn == [step |-> "none", id |-> 0, patients |-> {}, visits |-> {}]

\* A response: the route, what the request named (the id of its path or the
\* patient_id or mrn of its body), the HTTP status, the `error` of the JSON
\* body, the code of the exception the handler caught ("" when none), and
\* the JSON body of a success.
Response(op, arg, status, error, thrown, body) ==
    [op |-> op, arg |-> arg, status |-> status, error |-> error,
     thrown |-> thrown, body |-> body]

NoResp == Response("", 0, 0, "", "", <<>>)

----------------------------------------------------------------------------
(* POST /api/patients *)

\* const finalMrn = mrn || Math.floor(100000 + Math.random() * 900000).toString()
FinalMrn(mrn, random) == IF Falsy(mrn) THEN random ELSE mrn

\* patient_type || 'New'
FinalPatientType(patient_type) ==
    IF Falsy(patient_type) THEN "New" ELSE patient_type

\* created_at || new Date().toISOString()
FinalCreatedAt(created_at) == IF created_at = NoDate THEN now ELSE created_at

\* The row the INSERT binds; `other` stands for the nine remaining text
\* columns (contact, region, zone, woreda, kebele, treatment_type,
\* diabetes_type, cvd_risk, cvd_treatment_type), which every handler treats
\* alike.
NewPatientRow(body, random, id) ==
    [id |-> id,
     mrn |-> FinalMrn(body.mrn, random),
     name |-> body.name,
     age |-> body.age,
     gender |-> body.gender,
     conditions |-> body.conditions,
     patient_type |-> FinalPatientType(body.patient_type),
     created_at |-> FinalCreatedAt(body.created_at),
     other |-> body.other]

\* The column values of a patient row that come from the body as they are.
PatientBodyColumns(r) == {r.name, r.age, r.gender, r.conditions, r.other}

\* Mutant of MrnTaken: the column without its UNIQUE constraint.
MrnTaken_Unchecked(rows, mrn) == FALSE

\* mrn TEXT UNIQUE: a second row with the same non-NULL mrn is refused.
MrnTaken(rows, mrn) == mrn # Null /\ \E p \in rows : p.mrn = mrn

\* What the INSERT statement throws, "" when it runs.
InsertPatientError(row) ==
    IF \E v \in PatientBodyColumns(row) \cup {row.mrn, row.patient_type} : ~Bindable(v)
        THEN "TypeError"
    ELSE IF row.name = Null THEN "SQLITE_CONSTRAINT_NOTNULL"
    ELSE IF MrnTaken(patients, row.mrn) THEN "SQLITE_CONSTRAINT_UNIQUE"
    ELSE ""

\* The catch block of POST /api/patients.
PostPatientFailure(mrn, code) ==
    Response("POST /api/patients", mrn, 500, "Internal server error", code, <<>>)

PostPatient(body, random) ==
    /\ txn.step = "none"
    /\ seq.patients < MaxPatients
    /\ LET row == NewPatientRow(body, random, seq.patients + 1)
           err == InsertPatientError(row)
       IN  IF err = ""
           THEN /\ patients' = patients \cup {row}
                /\ seq' = [seq EXCEPT !.patients = row.id]
                /\ resp' = Response("POST /api/patients", row.mrn, 200, "", "",
                                    [id |-> row.id, mrn |-> row.mrn])
           ELSE /\ resp' = PostPatientFailure(row.mrn, err)
                /\ UNCHANGED <<patients, seq>>
    /\ UNCHANGED <<visits, users, txn, foreign_keys, now, ever_visited>>
    /\ UNCHANGED supabase
    /\ UNCHANGED <<client, schema, credentials>>

----------------------------------------------------------------------------
(* PUT /api/patients/:id *)

\* The values the UPDATE binds besides the id.
PutBoundValues(body) ==
    {body.mrn, body.name, body.age, body.gender, body.conditions,
     body.patient_type, body.other}

\* Mutant of UpdatedPatientRow: the UPDATE also sets created_at to the
\* current time.
UpdatedPatientRow_Restamped(p, body) ==
    [id |-> p.id,
     mrn |-> body.mrn,
     name |-> body.name,
     age |-> body.age,
     gender |-> body.gender,
     conditions |-> body.conditions,
     patient_type |-> body.patient_type,
     created_at |-> now,
     other |-> body.other]

\* The row after UPDATE patients SET mrn = ?, name = ?, ... WHERE id = ?:
\* every column but id and created_at takes the body's value.
UpdatedPatientRow(p, body) ==
    [id |-> p.id,
     mrn |-> body.mrn,
     name |-> body.name,
     age |-> body.age,
     gender |-> body.gender,
     conditions |-> body.conditions,
     patient_type |-> body.patient_type,
     created_at |-> p.created_at,
     other |-> body.other]

\* What the UPDATE statement throws, "" when it runs.  The constraints are
\* checked on the rows the WHERE clause selects only.
UpdatePatientError(targets, body) ==
    IF \E v \in PutBoundValues(body) : ~Bindable(v) THEN "TypeError"
    ELSE IF targets = {} THEN ""
    ELSE IF body.name = Null THEN "SQLITE_CONSTRAINT_NOTNULL"
    ELSE IF MrnTaken(patients \ targets, body.mrn) THEN "SQLITE_CONSTRAINT_UNIQUE"
    ELSE ""

PutPatient(idparam, body) ==
    /\ txn.step = "none"
    /\ LET targets == {p \in patients : p.id = SqlInteger(idparam)}
           err == UpdatePatientError(targets, body)
       IN  IF err = ""
           THEN /\ patients' = (patients \ targets)
                        \cup {UpdatedPatientRow(p, body) : p \in targets}
                /\ resp' = Response("PUT /api/patients/:id", SqlInteger(idparam),
                                    200, "", "", [success |-> TRUE])
           ELSE /\ resp' = Response("PUT /api/patients/:id", SqlInteger(idparam),
                                    500, "Internal server error", err, <<>>)
                /\ UNCHANGED patients
    /\ UNCHANGED <<visits, users, seq, txn, foreign_keys, now, ever_visited>>
    /\ UNCHANGED supabase
    /\ UNCHANGED <<client, schema, credentials>>

----------------------------------------------------------------------------
(* POST /api/visits *)

\* const n = (val) => (val === '' || val === undefined) ? null : val
N(val) == IF val = "" \/ val = Undefined THEN Null ELSE val

\* Mutant of MarkRepeat: the visit is inserted without the UPDATE.
MarkRepeat_Forgotten(rows, patient_id) == rows

\* UPDATE patients SET patient_type = 'Repeat' WHERE id = ?
MarkRepeat(rows, patient_id) ==
    {IF p.id = patient_id THEN [p EXCEPT !.patient_type = "Repeat"] ELSE p :
        p \in rows}

\* The row the INSERT INTO visits binds; visit_date is the column default
\* DATE('now').  systolic_bp stands for the twelve numeric columns passed
\* through n(), notes for urinalysis, notes and complications, bound as is.
NewVisitRow(body, id) ==
    [id |-> id,
     patient_id |-> body.patient_id,
     visit_date |-> now,
     systolic_bp |-> N(body.systolic_bp),
     notes |-> body.notes]

\* FOREIGN KEY (patient_id) REFERENCES patients(id): a NULL patient_id is
\* never checked; another one must name a row when the pragma is on.
ForeignKeyViolated(rows, patient_id) ==
    /\ foreign_keys
    /\ patient_id # NullId
    /\ patient_id \notin {p.id : p \in rows}

\* What the INSERT INTO visits throws, "" when it runs.
InsertVisitError(rows, row) ==
    IF ~Bindable(row.notes) THEN "TypeError"
    ELSE IF ForeignKeyViolated(rows, row.patient_id)
        THEN "SQLITE_CONSTRAINT_FOREIGNKEY"
    ELSE ""

\* The catch block of POST /api/visits.
PostVisitFailure(patient_id, code) ==
    Response("POST /api/visits", patient_id, 500, "Internal server error", code, <<>>)

PostVisit(body) ==
    /\ txn.step = "none"
    /\ seq.visits < MaxVisits
    /\ IF body.patient_id = UndefinedId
       THEN \* the UPDATE's run(undefined) throws before any statement runs
            /\ resp' = PostVisitFailure(body.patient_id, "TypeError")
            /\ UNCHANGED <<patients, visits, seq, ever_visited>>
       ELSE LET marked == MarkRepeat(patients, body.patient_id)
                row == NewVisitRow(body, seq.visits + 1)
                err == InsertVisitError(marked, row)
            IN  /\ patients' = marked
                /\ IF err = ""
                   THEN /\ visits' = visits \cup {row}
                        /\ seq' = [seq EXCEPT !.visits = row.id]
                        /\ ever_visited' = ever_visited
                                \cup ({row.patient_id} \cap {p.id : p \in marked})
                        /\ resp' = Response("POST /api/visits", row.patient_id, 200,
                                            "", "", [id |-> row.id])
                   ELSE /\ resp' = PostVisitFailure(row.patient_id, err)
                        /\ UNCHANGED <<visits, seq, ever_visited>>
    /\ UNCHANGED <<users, txn, foreign_keys, now>>
    /\ UNCHANGED supabase
    /\ UNCHANGED <<client, schema, credentials>>

----------------------------------------------------------------------------
(* DELETE /api/visits/:id *)

\* Mutant of DeleteVisit: the patient whose last visit is deleted is set
\* back to New.
DeleteVisit_Reverting(idparam) ==
    /\ txn.step = "none"
    /\ LET visitId == ParseInt(idparam)
           hit == {v \in visits : v.id = visitId}
           left == visits \ hit
       IN  IF visitId = NaN
           THEN /\ resp' = Response("DELETE /api/visits/:id", visitId, 400,
                                    "Invalid visit ID", "", <<>>)
                /\ UNCHANGED <<patients, visits>>
           ELSE IF hit = {}
           THEN /\ resp' = Response("DELETE /api/visits/:id", visitId, 404,
                                    "Visit not found", "", <<>>)
                /\ UNCHANGED <<patients, visits>>
           ELSE /\ visits' = left
                /\ patients' =
                     {IF (\E v \in hit : v.patient_id = p.id)
                            /\ ~(\E v \in left : v.patient_id = p.id)
                      THEN [p EXCEPT !.patient_type = "New"] ELSE p : p \in patients}
                /\ resp' = Response("DELETE /api/visits/:id", visitId, 200, "", "",
                                    [success |-> TRUE])
    /\ UNCHANGED <<users, seq, txn, foreign_keys, now, ever_visited>>
    /\ UNCHANGED supabase
    /\ UNCHANGED <<client, schema, credentials>>

\* Mutant of DeleteVisit: info.changes is not looked at.
DeleteVisit_ChangesIgnored(idparam) ==
    /\ txn.step = "none"
    /\ LET visitId == ParseInt(idparam)
           hit == {v \in visits : v.id = visitId}
       IN  IF visitId = NaN
           THEN /\ resp' = Response("DELETE /api/visits/:id", visitId, 400,
                                    "Invalid visit ID", "", <<>>)
                /\ UNCHANGED visits
           ELSE /\ visits' = visits \ hit
                /\ resp' = Response("DELETE /api/visits/:id", visitId, 200, "", "",
                                    [success |-> TRUE])
    /\ UNCHANGED <<patients, users, seq, txn, foreign_keys, now, ever_visited>>
    /\ UNCHANGED supabase
    /\ UNCHANGED <<client, schema, credentials>>

\* Mutant of DeleteVisit: WHERE patient_id of the visit in the place of
\* WHERE id.
DeleteVisit_OfPatient(idparam) ==
    /\ txn.step = "none"
    /\ LET visitId == ParseInt(idparam)
           hit == {v \in visits : v.id = visitId}
       IN  IF visitId = NaN
           THEN /\ resp' = Response("DELETE /api/visits/:id", visitId, 400,
                                    "Invalid visit ID", "", <<>>)
                /\ UNCHANGED visits
           ELSE IF hit = {}
           THEN /\ resp' = Response("DELETE /api/visits/:id", visitId, 404,
                                    "Visit not found", "", <<>>)
                /\ UNCHANGED visits
           ELSE /\ visits' = {v \in visits : \A h \in hit : v.patient_id # h.patient_id}
                /\ resp' = Response("DELETE /api/visits/:id", visitId, 200, "", "",
                                    [success |-> TRUE])
    /\ UNCHANGED <<patients, users, seq, txn, foreign_keys, now, ever_visited>>
    /\ UNCHANGED supabase
    /\ UNCHANGED <<client, schema, credentials>>

DeleteVisit(idparam) ==
    /\ txn.step = "none"
    /\ LET visitId == ParseInt(idparam)
           hit == {v \in visits : v.id = visitId}
       IN  IF visitId = NaN
           THEN /\ resp' = Response("DELETE /api/visits/:id", visitId, 400,
                                    "Invalid visit ID", "", <<>>)
                /\ UNCHANGED visits
           ELSE IF hit = {}  \* info.changes === 0
           THEN /\ resp' = Response("DELETE /api/visits/:id", visitId, 404,
                                    "Visit not found", "", <<>>)
                /\ UNCHANGED visits
           ELSE /\ visits' = visits \ hit
                /\ resp' = Response("DELETE /api/visits/:id", visitId, 200, "", "",
                                    [success |-> TRUE])
    /\ UNCHANGED <<patients, users, seq, txn, foreign_keys, now, ever_visited>>
    /\ UNCHANGED supabase
    /\ UNCHANGED <<client, schema, credentials>>

----------------------------------------------------------------------------
(* DELETE /api/patients/:id.  The handler runs deleteVisits and            *)
(* deletePatient inside db.transaction: the statements work on the         *)
(* transaction's copy, which the commit publishes and a throw discards.    *)
(* The handler is synchronous, so no other handler runs in between.        *)

\* The request is in the handler: no response has been sent yet.
Pending(op, arg) == Response(op, arg, 0, "", "", <<>>)

\* parseInt, the isNaN check and BEGIN.
DeletePatientBegin(idparam) ==
    /\ txn.step = "none"
    /\ LET patientId == ParseInt(idparam)
       IN  IF patientId = NaN
           THEN /\ resp' = Response("DELETE /api/patients/:id", patientId, 400,
                                    "Invalid patient ID", "", <<>>)
                /\ UNCHANGED txn
           ELSE /\ txn' = [step |-> "begun", id |-> patientId,
                           patients |-> patients, visits |-> visits]
                /\ resp' = Pending("DELETE /api/patients/:id", patientId)
    /\ UNCHANGED <<patients, visits, users, seq, foreign_keys, now, ever_visited>>
    /\ UNCHANGED supabase
    /\ UNCHANGED <<client, schema, credentials>>

\* Mutant of VisitsAfterDelete: WHERE patient_id <> ?
VisitsAfterDelete_Others(vs, patient_id) == {v \in vs : v.patient_id = patient_id}

\* Mutant of VisitsAfterDelete: the statement without its WHERE clause.
VisitsAfterDelete_NoWhere(vs, patient_id) == {}

\* The visits table after DELETE FROM visits WHERE patient_id = ?
VisitsAfterDelete(vs, patient_id) == {v \in vs : v.patient_id # patient_id}

\* deleteVisits.run(id)
TxnDeleteVisits ==
    /\ txn.step = "begun"
    /\ txn' = [txn EXCEPT !.step = "visits_deleted",
                          !.visits = VisitsAfterDelete(txn.visits, txn.id)]
    /\ UNCHANGED <<patients, visits, users, seq, resp, foreign_keys, now, ever_visited>>
    /\ UNCHANGED supabase
    /\ UNCHANGED <<client, schema, credentials>>

\* Whether DELETE FROM patients WHERE id = ? is refused: with the pragma on,
\* a visit row of the working copy still references the patient.
DeletePatientRefused(t) ==
    /\ foreign_keys
    /\ \E p \in t.patients : p.id = t.id
    /\ VisitsOf(t.visits, t.id) # {}

\* The catch block of DELETE /api/patients/:id, after the rollback.
DeletePatientFailure(t, code) ==
    Response("DELETE /api/patients/:id", t.id, 500, "Internal server error: ",
             code, <<>>)

\* deletePatient.run(id): DELETE FROM patients WHERE id = ?
TxnDeletePatient ==
    /\ txn.step = "visits_deleted"
    /\ IF DeletePatientRefused(txn)
       THEN /\ txn' = NoTxn
            /\ resp' = DeletePatientFailure(txn, "SQLITE_CONSTRAINT_FOREIGNKEY")
       ELSE /\ txn' = [txn EXCEPT !.step = "patient_deleted",
                                  !.patients = {p \in txn.patients : p.id # txn.id}]
            /\ UNCHANGED resp
    /\ UNCHANGED <<patients, visits, users, seq, foreign_keys, now, ever_visited>>
    /\ UNCHANGED supabase
    /\ UNCHANGED <<client, schema, credentials>>

\* What the database holds when the transaction function returns: COMMIT.
Committed(t) == [patients |-> t.patients, visits |-> t.visits]

TxnCommit ==
    /\ txn.step = "patient_deleted"
    /\ patients' = Committed(txn).patients
    /\ visits' = Committed(txn).visits
    /\ txn' = NoTxn
    /\ resp' = Response("DELETE /api/patients/:id", txn.id, 200, "", "",
                        [success |-> TRUE])
    /\ UNCHANGED <<users, seq, foreign_keys, now, ever_visited>>
    /\ UNCHANGED supabase
    /\ UNCHANGED <<client, schema, credentials>>

\* Mutant of RolledBack: the statements run outside a transaction, so what
\* ran before the throw stays.
RolledBack_Kept(t) == [patients |-> t.patients, visits |-> t.visits]

\* What the database holds when a statement of the transaction throws
\* (SQLITE_BUSY, an I/O error): ROLLBACK.
RolledBack(t) == [patients |-> patients, visits |-> visits]

TxnThrow ==
    /\ txn.step \in {"begun", "visits_deleted", "patient_deleted"}
    /\ patients' = RolledBack(txn).patients
    /\ visits' = RolledBack(txn).visits
    /\ txn' = NoTxn
    /\ resp' = DeletePatientFailure(txn, "SQLITE_BUSY")
    /\ UNCHANGED <<users, seq, foreign_keys, now, ever_visited>>
    /\ UNCHANGED supabase
    /\ UNCHANGED <<client, schema, credentials>>

----------------------------------------------------------------------------
(* POST /api/auth/signup *)

\* bcrypt uses the first 72 bytes of a password as the Blowfish key.
BcryptBytes == 72

RECURSIVE Filler(_)
Filler(n) == IF n = 0 THEN "" ELSE "a" \o Filler(n - 1)

\* Passwords of 73 characters that differ in the last one.
PasswordTails == {"x", "y"}

LongKey == Filler(BcryptBytes)

LongPasswords == {LongKey \o tail : tail \in PasswordTails}

\* The part of a password that bcrypt hashes.
KeyBytes(password) ==
    IF Len(password) <= BcryptBytes THEN password
    ELSE CHOOSE key \in {LongKey} : \E tail \in PasswordTails : key \o tail = password

\* bcrypt.hashSync(password, 10), less the salt
HashSync(password) == <<"bcrypt", KeyBytes(password)>>

\* bcrypt.compareSync(password, hash)
CompareSync(password, hash) == HashSync(password) = hash

\* The username and password of a request that makes a user row.
Credentials(body) == [username |-> body.username, password |-> body.password]

NewUserRow(body, id) ==
    [id |-> id,
     username |-> body.username,
     password |-> HashSync(body.password),
     full_name |-> IF Falsy(body.full_name) THEN body.username ELSE body.full_name,
     role |-> IF Falsy(body.role) THEN "staff" ELSE body.role]

\* username TEXT UNIQUE NOT NULL
UsernameTaken(rows, username) == \E u \in rows : u.username = username

\* The catch block of POST /api/auth/signup.
SignupFailure(username, code) ==
    IF code = "SQLITE_CONSTRAINT_UNIQUE"
    THEN Response("POST /api/auth/signup", username, 400,
                  "Username already exists", code, <<>>)
    ELSE Response("POST /api/auth/signup", username, 500,
                  "Internal server error", code, <<>>)

Signup(body) ==
    /\ txn.step = "none"
    /\ seq.users < MaxUsers
    /\ IF Falsy(body.username) \/ Falsy(body.password)
       THEN /\ resp' = Response("POST /api/auth/signup", body.username, 400,
                                "Username and password are required", "", <<>>)
            /\ UNCHANGED <<users, seq>>
       ELSE IF UsernameTaken(users, body.username)
       THEN /\ resp' = SignupFailure(body.username, "SQLITE_CONSTRAINT_UNIQUE")
            /\ UNCHANGED <<users, seq>>
       ELSE LET row == NewUserRow(body, seq.users + 1)
            IN  /\ users' = users \cup {row}
                /\ seq' = [seq EXCEPT !.users = row.id]
                /\ resp' = Response("POST /api/auth/signup", row.username, 200, "", "",
                                    [id |-> row.id, username |-> row.username,
                                     full_name |-> row.full_name, role |-> row.role])
    /\ UNCHANGED <<patients, visits, txn, foreign_keys, now, ever_visited>>
    /\ UNCHANGED supabase
    /\ UNCHANGED <<client, schema>>
    /\ credentials' = IF users' = users THEN credentials
                      ELSE credentials \cup {Credentials(body)}

----------------------------------------------------------------------------
(* GET /api/reports/summary *)

\* The characters of a text of a column or of a search, in runs: each run
\* stands for the characters of that word.
Chars(text) ==
    CASE text = "" -> <<>>
      [] text = "Abebe" -> <<"Abebe">>
      [] text = "Sara" -> <<"Sara">>
      [] text = "sara" -> <<"sara">>
      [] text = "100001" -> <<"100001">>
      [] text = "100002" -> <<"100002">>
      [] text = "12345" -> <<"12345">>
      [] text = "Hypertension" -> <<"Hypertension">>
      [] text = "Diabetes" -> <<"Diabetes">>
      [] text = "Hypertension, Diabetes" -> <<"Hypertension", ", ", "Diabetes">>
      [] text = "Diabetes, Hypertension" -> <<"Diabetes", ", ", "Hypertension">>
      [] text = "Asthma" -> <<"Asthma">>
      [] text = "hypertension" -> <<"hypertension">>
      [] text = "abebe" -> <<"abebe">>
      [] text = "admin" -> <<"admin">>

\* LIKE compares ASCII letters without regard to case.
Fold(run) ==
    CASE run = "Hypertension" -> "hypertension"
      [] run = "Diabetes" -> "diabetes"
      [] run = "Asthma" -> "asthma"
      [] run = "Abebe" -> "abebe"
      [] run = "Sara" -> "sara"
      [] OTHER -> run

\* Whether the runs of `part` occur, in a row, among the runs of `whole`.
Occurs(part, whole) ==
    \E i \in 0..(Len(whole) - Len(part)) :
        \A j \in 1..Len(part) : Fold(whole[i + j]) = Fold(part[j])

\* Mutant of Like: a NULL column treated as a text that matches.
Like_NullMatches(text, word) == text = Null \/ Occurs(Chars(word), Chars(text))

\* conditions LIKE '%word%' as the WHEN of a CASE or a WHERE takes it: a NULL
\* column makes the comparison NULL, which selects nothing.
Like(text, word) == text # Null /\ Occurs(Chars(word), Chars(text))

\* conditions NOT LIKE '%word%', NULL again selecting nothing.
NotLike(text, word) == text # Null /\ ~Occurs(Chars(word), Chars(text))

DigitChar(n) ==
    CASE n = 0 -> "0" [] n = 1 -> "1" [] n = 2 -> "2" [] n = 3 -> "3"
      [] n = 4 -> "4" [] n = 5 -> "5" [] n = 6 -> "6" [] n = 7 -> "7"
      [] n = 8 -> "8" [] n = 9 -> "9"

\* The decimal digits of a natural number.
RECURSIVE ToDigits(_)
ToDigits(n) ==
    IF n < 10 THEN <<DigitChar(n)>> ELSE ToDigits(n \div 10) \o <<DigitChar(n % 10)>>

\* String.prototype.padStart(2, '0') of a digit string
RECURSIVE PadStart2(_)
PadStart2(s) == IF Len(s) < 2 THEN PadStart2(<<"0">> \o s) ELSE s

\* strftime('%m', t) and strftime('%Y', t) of a timestamp column
StrftimeMonth(t) == PadStart2(ToDigits(t[2]))
StrftimeYear(t) == ToDigits(t[1])

\* if (month && year): the query has a window.
HasWindow(q) == q.month # <<>> /\ q.year # <<>>

\* patientWhere: the patients the queries count.
InWindow(q, t) ==
    \/ ~HasWindow(q)
    \/ /\ StrftimeMonth(t) = PadStart2(q.month)
       /\ StrftimeYear(t) = q.year

PatientsInWindow(rows, q) == {p \in rows : InWindow(q, p.created_at)}

\* SELECT COUNT(*) ... AND patient_type = ?
CountOfType(rows, patient_type) ==
    Cardinality({p \in rows : p.patient_type = patient_type})

\* Mutant of ConditionCounts: the "only" buckets without their NOT LIKE.
ConditionCounts_Overlapping(rows) ==
    [hypertension_only |->
        Cardinality({p \in rows : Like(p.conditions, "Hypertension")}),
     diabetes_only |->
        Cardinality({p \in rows : Like(p.conditions, "Diabetes")}),
     both |->
        Cardinality({p \in rows : Like(p.conditions, "Hypertension")
                                  /\ Like(p.conditions, "Diabetes")})]

\* SUM(CASE WHEN conditions LIKE ... THEN 1 ELSE 0 END) ..., with `|| 0`.
ConditionCounts(rows) ==
    [hypertension_only |->
        Cardinality({p \in rows : Like(p.conditions, "Hypertension")
                                  /\ NotLike(p.conditions, "Diabetes")}),
     diabetes_only |->
        Cardinality({p \in rows : Like(p.conditions, "Diabetes")
                                  /\ NotLike(p.conditions, "Hypertension")}),
     both |->
        Cardinality({p \in rows : Like(p.conditions, "Hypertension")
                                  /\ Like(p.conditions, "Diabetes")})]

\* SUM(CASE WHEN gender = 'Male' THEN 1 ELSE 0 END) ..., with `|| 0`.
GenderDistribution(rows) ==
    [male |-> Cardinality({p \in rows : p.gender = "Male"}),
     female |-> Cardinality({p \in rows : p.gender = "Female"}),
     other |-> Cardinality({p \in rows : p.gender = "Other"})]

\* Mutant of Summary: genderByCondition without its WHERE conditions LIKE.
Summary_AnyCondition(rows, q) ==
    LET window == PatientsInWindow(rows, q)
    IN  [totalPatients |-> Cardinality(window),
         newPatients |-> CountOfType(window, "New"),
         repeatPatients |-> CountOfType(window, "Repeat"),
         conditionCounts |-> ConditionCounts(window),
         genderDistribution |-> GenderDistribution(window),
         genderByCondition |->
            [hypertension |-> GenderDistribution(window),
             diabetes |-> GenderDistribution(window)]]

\* The JSON of the response, computed over the rows of table patients.
Summary(rows, q) ==
    LET window == PatientsInWindow(rows, q)
    IN  [totalPatients |-> Cardinality(window),
         newPatients |-> CountOfType(window, "New"),
         repeatPatients |-> CountOfType(window, "Repeat"),
         conditionCounts |-> ConditionCounts(window),
         genderDistribution |-> GenderDistribution(window),
         genderByCondition |->
            [hypertension |->
                GenderDistribution({p \in window : Like(p.conditions, "Hypertension")}),
             diabetes |->
                GenderDistribution({p \in window : Like(p.conditions, "Diabetes")})]]

\* visit_date and created_at are ISO texts, which compare as the dates do:
\* by year, then month, then the day when both carry one.
DateLE(a, b) ==
    \/ a[1] < b[1]
    \/ a[1] = b[1] /\ a[2] < b[2]
    \/ a[1] = b[1] /\ a[2] = b[2] /\ (Len(a) < 3 \/ Len(b) < 3 \/ a[3] <= b[3])

\* LIMIT 10
RecentLimit == 10

\* SELECT v.*, p.name as patient_name FROM visits v JOIN patients p
\* ON v.patient_id = p.id, with visitWhere.
JoinedVisits(vs, rows, q) ==
    {[id |-> v.id, patient_id |-> v.patient_id, visit_date |-> v.visit_date,
      systolic_bp |-> v.systolic_bp, notes |-> v.notes, patient_name |-> p.name] :
        <<v, p>> \in {pair \in vs \X rows :
                        /\ pair[1].patient_id = pair[2].id
                        /\ InWindow(q, pair[1].visit_date)}}

\* The ways of listing a set of rows by visit_date, latest first: SQL leaves
\* the order of rows with the same visit_date open.
RECURSIVE LatestFirst(_)
LatestFirst(S) ==
    IF S = {} THEN {<<>>}
    ELSE UNION {{<<r>> \o rest : rest \in LatestFirst(S \ {r})} :
                    r \in {x \in S : \A y \in S : DateLE(y.visit_date, x.visit_date)}}

\* ORDER BY v.visit_date DESC LIMIT 10: the results the query may return.
RecentVisits(vs, rows, q) ==
    {SubSeq(f, 1, IF Len(f) < RecentLimit THEN Len(f) ELSE RecentLimit) :
        f \in LatestFirst(JoinedVisits(vs, rows, q))}

GetSummary(q) ==
    /\ txn.step = "none"
    /\ \E recentVisits \in RecentVisits(visits, patients, q) :
        resp' = Response("GET /api/reports/summary", q, 200, "", "",
                         Summary(patients, q) @@ [recentVisits |-> recentVisits])
    /\ UNCHANGED <<patients, visits, users, seq, txn, foreign_keys, now, ever_visited>>
    /\ UNCHANGED supabase
    /\ UNCHANGED <<client, schema, credentials>>

----------------------------------------------------------------------------
(* GET /api/patients and GET /api/patients/search *)

\* The place of a name in the order of the BINARY collation.
Collate(name) ==
    CASE name = "" -> 0 [] name = "Abebe" -> 1 [] name = "Sara" -> 2

\* Mutant of LastVisit: MIN in the place of MAX.
LastVisit_Earliest(vs, pid) ==
    IF VisitsOf(vs, pid) = {} THEN NoDate
    ELSE CHOOSE d \in {v.visit_date : v \in VisitsOf(vs, pid)} :
            \A v \in VisitsOf(vs, pid) : DateLE(d, v.visit_date)

\* MAX(v.visit_date) over the rows LEFT JOIN visits v ON p.id = v.patient_id
\* gives patient pid: NULL when no visit matches.
LastVisit(vs, pid) ==
    IF VisitsOf(vs, pid) = {} THEN NoDate
    ELSE CHOOSE d \in {v.visit_date : v \in VisitsOf(vs, pid)} :
            \A v \in VisitsOf(vs, pid) : DateLE(v.visit_date, d)

\* SELECT p.*, MAX(v.visit_date) as last_visit ... GROUP BY p.id
WithLastVisit(rows, vs) ==
    {p @@ [last_visit |-> LastVisit(vs, p.id)] : p \in rows}

\* ORDER BY p.name ASC: the ways of listing the rows, rows of the same name
\* in any order.
ByName(S) ==
    {f \in [1..Cardinality(S) -> S] :
        /\ \A i, j \in 1..Cardinality(S) : i # j => f[i] # f[j]
        /\ \A i, j \in 1..Cardinality(S) :
                i < j => Collate(f[i].name) <= Collate(f[j].name)}

GetPatients ==
    /\ txn.step = "none"
    /\ \E list \in ByName(WithLastVisit(patients, visits)) :
        resp' = Response("GET /api/patients", "", 200, "", "", list)
    /\ UNCHANGED <<patients, visits, users, seq, txn, foreign_keys, now, ever_visited>>
    /\ UNCHANGED supabase
    /\ UNCHANGED <<client, schema, credentials>>

\* WHERE p.name LIKE ? OR p.contact LIKE ? OR p.conditions LIKE ? OR p.mrn LIKE ?
\* with '%query%' four times; contact is among the columns of `other`.
Matches(p, query) ==
    \/ Like(p.name, query)
    \/ Like(p.other, query)
    \/ Like(p.conditions, query)
    \/ Like(p.mrn, query)

\* const query = req.query.q || ""
SearchPatients(q) ==
    /\ txn.step = "none"
    /\ LET query == IF Falsy(q) THEN "" ELSE q
       IN  \E list \in ByName(WithLastVisit({p \in patients : Matches(p, query)}, visits)) :
            resp' = Response("GET /api/patients/search", q, 200, "", "", list)
    /\ UNCHANGED <<patients, visits, users, seq, txn, foreign_keys, now, ever_visited>>
    /\ UNCHANGED supabase
    /\ UNCHANGED <<client, schema, credentials>>

----------------------------------------------------------------------------
(* The client's handlers.  They write to the Supabase project through      *)
(* supabase-js; the project's schema and policies are not part of the      *)
(* repository, so an insert is either accepted, and then stores the row as *)
(* it was sent, or refused with an error.                                  *)

\* No call awaits the fetch.
NoThen == [month |-> <<>>, year |-> <<>>]

\* A call of fetchSummary(month, year) in flight.  The function is async: the
\* call sends the query of the patients and returns, and what follows each
\* await runs when the response is there.
FetchSummary(id, month, year) ==
    [id |-> id, fn |-> "fetchSummary",
     month |-> IF month = <<>> THEN reportMonth ELSE month,   \* month || reportMonth
     year |-> IF year = <<>> THEN reportYear ELSE year,       \* year || reportYear
     query |-> "", awaiting |-> "patients", patientsData |-> {}, then |-> NoThen]

\* A call of fetchPatients(query) in flight.  `then` holds the reportMonth and
\* reportYear of the handler that awaits the call and runs
\* fetchSummary(reportMonth, reportYear) after it, NoThen when none awaits.
FetchPatients(id, query, then) ==
    [id |-> id, fn |-> "fetchPatients", month |-> <<>>, year |-> <<>>,
     query |-> query, awaiting |-> "patients", patientsData |-> {}, then |-> then]

\* What a handler ends with: showSuccess, or the alert of its catch block.
ClientOutcome(op, arg, error) ==
    Response(op, arg, 0, error, IF error = "" THEN "" ELSE "PostgrestError", <<>>)

\* newPatient.conditions.join(', ')
Join(conditions) ==
    CASE conditions = <<>> -> ""
      [] conditions = <<"Hypertension">> -> "Hypertension"
      [] conditions = <<"Diabetes">> -> "Diabetes"
      [] conditions = <<"Hypertension", "Diabetes">> -> "Hypertension, Diabetes"

\* patientData of handleCreatePatient, with the id the database gives it.
ClientPatientRow(newPatient, random, id) ==
    [id |-> id,
     mrn |-> IF newPatient.mrn = "" THEN random ELSE newPatient.mrn,
     name |-> newPatient.name,
     age |-> newPatient.age,
     gender |-> newPatient.gender,
     conditions |-> Join(newPatient.conditions),
     patient_type |-> newPatient.patient_type,
     created_at |-> now,
     other |-> newPatient.other]

HandleCreatePatient(newPatient, random, accepted) ==
    /\ txn.step = "none"
    /\ supabase_seq.patients < MaxPatients
    /\ LET row == ClientPatientRow(newPatient, random, supabase_seq.patients + 1)
       IN  IF accepted
           THEN /\ supabase_patients' = supabase_patients \cup {row}
                /\ supabase_seq' = [supabase_seq EXCEPT !.patients = row.id]
                /\ resp' = ClientOutcome("handleCreatePatient", row.mrn, "")
                \* await fetchPatients(), then fetchSummary(reportMonth, reportYear)
                /\ fetching' = fetching \cup
                        {FetchPatients(fetch_seq + 1, "",
                                       [month |-> reportMonth, year |-> reportYear])}
                /\ fetch_seq' = fetch_seq + 1
           ELSE /\ resp' = ClientOutcome("handleCreatePatient", row.mrn,
                                         "Failed to register patient: ")
                /\ UNCHANGED <<supabase_patients, supabase_seq, fetching, fetch_seq>>
    /\ UNCHANGED supabase_visits
    /\ UNCHANGED <<reportMonth, reportYear, summary, searchQuery, clientPatients>>
    /\ UNCHANGED <<patients, visits, users, seq, txn, foreign_keys, now, ever_visited>>
    /\ UNCHANGED <<schema, credentials>>

\* parseInt(text) || null: NaN and 0 are falsy.
ParseIntOrNull(text) ==
    IF ParseInt(text) = NaN \/ ParseInt(text) = 0 THEN NullId ELSE ParseInt(text)

\* visitData of handleCreateVisit, with the id the database gives it.
\* systolic_bp stands for the twelve numeric fields, notes for the three
\* text fields.
ClientVisitRow(selectedPatient, newVisit, id) ==
    [id |-> id,
     patient_id |-> selectedPatient.id,
     visit_date |-> now,
     systolic_bp |-> ParseIntOrNull(newVisit.systolic_bp),
     notes |-> IF newVisit.notes = "" THEN Null ELSE newVisit.notes]

\* The handler inserts the visit and refreshes the lists; it sends no update
\* of the patient.
HandleCreateVisit(selectedId, newVisit, accepted) ==
    /\ txn.step = "none"
    /\ supabase_seq.visits < MaxVisits
    /\ \E p \in supabase_patients : p.id = selectedId  \* if (!selectedPatient) return
    /\ LET selectedPatient == CHOOSE p \in supabase_patients : p.id = selectedId
           row == ClientVisitRow(selectedPatient, newVisit, supabase_seq.visits + 1)
       IN  IF accepted
           THEN /\ supabase_visits' = supabase_visits \cup {row}
                /\ supabase_seq' = [supabase_seq EXCEPT !.visits = row.id]
                /\ resp' = ClientOutcome("handleCreateVisit", row.patient_id, "")
                \* await fetchPatients(), then fetchSummary(reportMonth, reportYear)
                /\ fetching' = fetching \cup
                        {FetchPatients(fetch_seq + 1, "",
                                       [month |-> reportMonth, year |-> reportYear])}
                /\ fetch_seq' = fetch_seq + 1
           ELSE /\ resp' = ClientOutcome("handleCreateVisit", row.patient_id,
                                         "Failed to add clinical record: ")
                /\ UNCHANGED <<supabase_visits, supabase_seq, fetching, fetch_seq>>
    /\ UNCHANGED supabase_patients
    /\ UNCHANGED <<reportMonth, reportYear, summary, searchQuery, clientPatients>>
    /\ UNCHANGED <<patients, visits, users, seq, txn, foreign_keys, now, ever_visited>>
    /\ UNCHANGED <<schema, credentials>>

----------------------------------------------------------------------------
(* The client's reads.  What follows an await of fetchSummary or of        *)
(* fetchPatients is a step of its own, taken when the response is there;   *)
(* nothing orders the responses of different calls.  A step reads the      *)
(* Supabase tables as they are when it is taken.  Queries that fail (the   *)
(* catch blocks log and leave the state alone) are not modelled.           *)

MaxFetches == 4     \* calls of fetchSummary and fetchPatients the events make

NoSummary == [month |-> <<>>, year |-> <<>>, stats |-> <<>>]

\* new Date(parseInt(y), parseInt(m) - 1, 1) to new Date(parseInt(y),
\* parseInt(m), 0, 23, 59, 59): the month the two dates enclose, a month past
\* 12 running into the next year.  The browser's time zone is taken as UTC.
WindowMonth(m, y) ==
    <<ParseInt(y) + (ParseInt(m) - 1) \div 12, ((ParseInt(m) - 1) % 12) + 1>>

\* .gte('created_at', startDate).lte('created_at', endDate), and the same on
\* visit_date
InClientWindow(m, y, t) == <<t[1], t[2]>> = WindowMonth(m, y)

\* String.prototype.includes: the word occurs in the text, letter for letter.
Includes(text, word) ==
    \E i \in 0..(Len(Chars(text)) - Len(Chars(word))) :
        \A j \in 1..Len(Chars(word)) : Chars(text)[i + j] = Chars(word)[j]

\* p.conditions.includes(...) on a row whose conditions is null throws a
\* TypeError, which the catch block of fetchSummary logs.
StatsThrow(patientsData) == \E p \in patientsData : p.conditions = Null

\* patientsData.filter(p => p.gender === ...).length, three times
ClientGenderCounts(rows) ==
    [male |-> Cardinality({p \in rows : p.gender = "Male"}),
     female |-> Cardinality({p \in rows : p.gender = "Female"}),
     other |-> Cardinality({p \in rows : p.gender = "Other"})]

\* Mutant of ClientStats: hypertension_only and diabetes_only without their
\* `&& !p.conditions.includes(...)`.
ClientStats_Overlapping(patientsData) ==
    [totalPatients |-> Cardinality(patientsData),
     newPatients |-> Cardinality({p \in patientsData : p.patient_type = "New"}),
     repeatPatients |-> Cardinality({p \in patientsData : p.patient_type = "Repeat"}),
     conditionCounts |->
        [hypertension_only |->
            Cardinality({p \in patientsData : Includes(p.conditions, "Hypertension")}),
         diabetes_only |->
            Cardinality({p \in patientsData : Includes(p.conditions, "Diabetes")}),
         both |->
            Cardinality({p \in patientsData : Includes(p.conditions, "Hypertension")
                                              /\ Includes(p.conditions, "Diabetes")})],
     genderDistribution |-> ClientGenderCounts(patientsData),
     genderByCondition |->
        [hypertension |->
            ClientGenderCounts({p \in patientsData : Includes(p.conditions, "Hypertension")}),
         diabetes |->
            ClientGenderCounts({p \in patientsData : Includes(p.conditions, "Diabetes")})]]

\* const stats = {...} of fetchSummary, less recentVisits.
ClientStats(patientsData) ==
    [totalPatients |-> Cardinality(patientsData),
     newPatients |-> Cardinality({p \in patientsData : p.patient_type = "New"}),
     repeatPatients |-> Cardinality({p \in patientsData : p.patient_type = "Repeat"}),
     conditionCounts |->
        [hypertension_only |->
            Cardinality({p \in patientsData : Includes(p.conditions, "Hypertension")
                                              /\ ~Includes(p.conditions, "Diabetes")}),
         diabetes_only |->
            Cardinality({p \in patientsData : Includes(p.conditions, "Diabetes")
                                              /\ ~Includes(p.conditions, "Hypertension")}),
         both |->
            Cardinality({p \in patientsData : Includes(p.conditions, "Hypertension")
                                              /\ Includes(p.conditions, "Diabetes")})],
     genderDistribution |-> ClientGenderCounts(patientsData),
     genderByCondition |->
        [hypertension |->
            ClientGenderCounts({p \in patientsData : Includes(p.conditions, "Hypertension")}),
         diabetes |->
            ClientGenderCounts({p \in patientsData : Includes(p.conditions, "Diabetes")})]]

\* (v as any).patients?.name || 'Unknown', for the patient select('*,
\* patients(name)') embeds: none when no patient row has the visit's patient_id.
EmbeddedName(rows, patient_id) ==
    IF \E p \in rows : p.id = patient_id /\ ~Falsy(p.name)
    THEN (CHOOSE p \in rows : p.id = patient_id).name
    ELSE "Unknown"

\* The visits of the window with their patient_name.
NamedVisits(vs, rows, m, y) ==
    {[id |-> v.id, patient_id |-> v.patient_id, visit_date |-> v.visit_date,
      systolic_bp |-> v.systolic_bp, notes |-> v.notes,
      patient_name |-> EmbeddedName(rows, v.patient_id)] :
        v \in {w \in vs : InClientWindow(m, y, w.visit_date)}}

\* .order('visit_date', { ascending: false }): every row of the window, in
\* one of the orders the database may return them.
ClientRecentVisits(vs, rows, m, y) == LatestFirst(NamedVisits(vs, rows, m, y))

\* The first await of fetchSummary returns: patientsData is there and the
\* query of the visits is sent.
FetchSummaryPatients(id) ==
    /\ txn.step = "none"
    /\ \E f \in fetching :
        /\ f.id = id /\ f.fn = "fetchSummary" /\ f.awaiting = "patients"
        /\ fetching' = (fetching \ {f}) \cup
                {[f EXCEPT !.awaiting = "visits",
                           !.patientsData =
                                {p \in supabase_patients :
                                    InClientWindow(f.month, f.year, p.created_at)}]}
    /\ UNCHANGED <<reportMonth, reportYear, summary, searchQuery, clientPatients,
                   fetch_seq>>
    /\ UNCHANGED <<patients, visits, users, seq, txn, resp, foreign_keys, now,
                   ever_visited>>
    /\ UNCHANGED <<supabase, schema, credentials>>

\* The second await of fetchSummary returns: stats is computed and
\* setSummary(stats) called, unless computing it throws.
FetchSummaryVisits(id) ==
    /\ txn.step = "none"
    /\ \E f \in fetching :
        /\ f.id = id /\ f.fn = "fetchSummary" /\ f.awaiting = "visits"
        /\ fetching' = fetching \ {f}
        /\ IF StatsThrow(f.patientsData)
           THEN UNCHANGED summary
           ELSE \E recentVisits \in
                    ClientRecentVisits(supabase_visits, supabase_patients, f.month, f.year) :
                   summary' = [month |-> f.month, year |-> f.year,
                               stats |-> ClientStats(f.patientsData)
                                            @@ [recentVisits |-> recentVisits]]
    /\ UNCHANGED <<reportMonth, reportYear, searchQuery, clientPatients, fetch_seq>>
    /\ UNCHANGED <<patients, visits, users, seq, txn, resp, foreign_keys, now,
                   ever_visited>>
    /\ UNCHANGED <<supabase, schema, credentials>>

\* p.visits.sort(...)[0].visit_date, null when the patient has no visit
ClientLastVisit(vs, pid) ==
    IF VisitsOf(vs, pid) = {} THEN NoDate
    ELSE CHOOSE d \in {v.visit_date : v \in VisitsOf(vs, pid)} :
            \A v \in VisitsOf(vs, pid) : DateLE(v.visit_date, d)

\* .or(`name.ilike.%q%,contact.ilike.%q%,conditions.ilike.%q%,mrn.ilike.%q%`)
\* when the query is not empty; contact is among the columns of `other`.
ClientMatches(p, query) ==
    \/ query = ""
    \/ Like(p.name, query)
    \/ Like(p.other, query)
    \/ Like(p.conditions, query)
    \/ Like(p.mrn, query)

\* processedPatients: the rows the query selects, ordered by name, each with
\* its last_visit (the embedded visits array is left out).
ProcessedPatients(rows, vs, query) ==
    ByName({p @@ [last_visit |-> ClientLastVisit(vs, p.id)] :
                p \in {r \in rows : ClientMatches(r, query)}})

\* The await of fetchPatients returns: setPatients(processedPatients); the
\* handler that awaited the call goes on to fetchSummary(reportMonth,
\* reportYear), with the values of its own render.
FetchPatientsData(id) ==
    /\ txn.step = "none"
    /\ \E f \in fetching :
        /\ f.id = id /\ f.fn = "fetchPatients"
        /\ \E list \in ProcessedPatients(supabase_patients, supabase_visits, f.query) :
                clientPatients' = list
        /\ IF f.then = NoThen
           THEN /\ fetching' = fetching \ {f}
                /\ UNCHANGED fetch_seq
           ELSE /\ fetching' = (fetching \ {f}) \cup
                        {FetchSummary(fetch_seq + 1, f.then.month, f.then.year)}
                /\ fetch_seq' = fetch_seq + 1
    /\ UNCHANGED <<reportMonth, reportYear, summary, searchQuery>>
    /\ UNCHANGED <<patients, visits, users, seq, txn, resp, foreign_keys, now,
                   ever_visited>>
    /\ UNCHANGED <<supabase, schema, credentials>>

\* onChange of the month select: setReportMonth(e.target.value);
\* fetchSummary(e.target.value, reportYear)
SelectMonth(month) ==
    /\ txn.step = "none"
    /\ fetch_seq < MaxFetches
    /\ month # reportMonth
    /\ reportMonth' = month
    /\ fetching' = fetching \cup {FetchSummary(fetch_seq + 1, month, reportYear)}
    /\ fetch_seq' = fetch_seq + 1
    /\ UNCHANGED <<reportYear, summary, searchQuery, clientPatients>>
    /\ UNCHANGED <<patients, visits, users, seq, txn, resp, foreign_keys, now,
                   ever_visited>>
    /\ UNCHANGED <<supabase, schema, credentials>>

\* onChange of the year select: setReportYear(e.target.value);
\* fetchSummary(reportMonth, e.target.value)
SelectYear(year) ==
    /\ txn.step = "none"
    /\ fetch_seq < MaxFetches
    /\ year # reportYear
    /\ reportYear' = year
    /\ fetching' = fetching \cup {FetchSummary(fetch_seq + 1, reportMonth, year)}
    /\ fetch_seq' = fetch_seq + 1
    /\ UNCHANGED <<reportMonth, summary, searchQuery, clientPatients>>
    /\ UNCHANGED <<patients, visits, users, seq, txn, resp, foreign_keys, now,
                   ever_visited>>
    /\ UNCHANGED <<supabase, schema, credentials>>

\* onChange of a search box: setSearchQuery(e.target.value);
\* fetchPatients(e.target.value)
ChangeSearch(text) ==
    /\ txn.step = "none"
    /\ fetch_seq < MaxFetches
    /\ text # searchQuery
    /\ searchQuery' = text
    /\ fetching' = fetching \cup {FetchPatients(fetch_seq + 1, text, NoThen)}
    /\ fetch_seq' = fetch_seq + 1
    /\ UNCHANGED <<reportMonth, reportYear, summary, clientPatients>>
    /\ UNCHANGED <<patients, visits, users, seq, txn, resp, foreign_keys, now,
                   ever_visited>>
    /\ UNCHANGED <<supabase, schema, credentials>>

----------------------------------------------------------------------------
(* POST /api/auth/login *)

\* String.prototype.toLowerCase, on the usernames of the requests.
ToLowerCase(text) == CASE text = "Admin" -> "admin" [] OTHER -> text

\* username.toLowerCase().includes('admin') ? 'admin' : 'staff'
LoginRole(username) ==
    IF Includes(ToLowerCase(username), "admin") THEN "admin" ELSE "staff"

\* The row that the auto-registration of the login route inserts.
AutoRegistered(body, id) ==
    [id |-> id,
     username |-> body.username,
     password |-> HashSync(body.password),
     full_name |-> body.username,
     role |-> LoginRole(body.username)]

\* res.json({ id, username, full_name, role })
LoggedIn(user) ==
    Response("POST /api/auth/login", user.username, 200, "", "",
             [id |-> user.id, username |-> user.username,
              full_name |-> user.full_name, role |-> user.role])

Login(body) ==
    /\ txn.step = "none"
    /\ IF Falsy(body.username) \/ Falsy(body.password)
       THEN /\ resp' = Response("POST /api/auth/login", body.username, 400,
                                "Username and password are required", "", <<>>)
            /\ UNCHANGED <<users, seq, credentials>>
       ELSE IF UsernameTaken(users, body.username)
       THEN LET user == CHOOSE u \in users : u.username = body.username
            IN  /\ resp' = IF ~CompareSync(body.password, user.password)
                           THEN Response("POST /api/auth/login", body.username, 401,
                                         "Invalid password", "", <<>>)
                           ELSE LoggedIn(user)
                /\ UNCHANGED <<users, seq, credentials>>
       ELSE LET row == AutoRegistered(body, seq.users + 1)
            IN  /\ seq.users < MaxUsers
                /\ users' = users \cup {row}
                /\ seq' = [seq EXCEPT !.users = row.id]
                /\ credentials' = credentials \cup {Credentials(body)}
                /\ resp' = LoggedIn(row)
    /\ UNCHANGED <<patients, visits, txn, foreign_keys, now, ever_visited>>
    /\ UNCHANGED supabase
    /\ UNCHANGED <<client, schema>>

----------------------------------------------------------------------------
(* Startup: after the CREATE TABLE IF NOT EXISTS statements, which leave a *)
(* table that exists as it is, ensureColumns() adds the columns an older   *)
(* clinic.db lacks.                                                        *)

MaxStartups == 2    \* runs of ensureColumns on one clinic.db

\* The columns of the three CREATE TABLE statements.
CreatedColumns ==
    [users |-> {"id", "username", "password", "full_name", "role"},
     patients |-> {"id", "mrn", "name", "age", "gender", "contact", "patient_type",
                   "conditions", "region", "zone", "woreda", "kebele",
                   "treatment_type", "diabetes_type", "cvd_risk",
                   "cvd_treatment_type", "created_at"},
     visits |-> {"id", "patient_id", "visit_date", "systolic_bp", "diastolic_bp",
                 "heart_rate", "temperature", "respiratory_rate", "spo2",
                 "blood_sugar_level", "hba1c", "creatinine", "cholesterol",
                 "triglycerides", "urinalysis", "weight", "notes", "complications"}]

\* const tables = {...}: the columns ensureColumns looks for, table by table.
Tables ==
    [users |-> <<"role">>,
     patients |-> <<"mrn", "region", "zone", "woreda", "kebele", "treatment_type",
                    "diabetes_type", "cvd_risk", "cvd_treatment_type">>,
     visits |-> <<"heart_rate", "temperature", "respiratory_rate", "spo2", "hba1c",
                  "creatinine", "cholesterol", "triglycerides", "urinalysis",
                  "complications">>]

\* Mutant of Missing: the test without its negation.
Missing_Inverted(existingColumns, column) == column \in existingColumns

\* !existingColumns.includes(column)
Missing(existingColumns, column) == column \notin existingColumns

\* ALTER TABLE ... ADD COLUMN: SQLite refuses a column the table has, and the
\* catch block logs the error, which leaves the table as it is.
AddColumn(cols, column) == IF column \in cols THEN cols ELSE cols \cup {column}

\* for (const column of columns): existingColumns is read once, before the
\* loop.
RECURSIVE EnsureTable(_, _, _)
EnsureTable(cols, existingColumns, listed) ==
    IF listed = <<>> THEN cols
    ELSE EnsureTable(IF Missing(existingColumns, Head(listed))
                     THEN AddColumn(cols, Head(listed)) ELSE cols,
                     existingColumns, Tail(listed))

\* ensureColumns(), at a start of the server.
EnsureColumns ==
    /\ txn.step = "none"
    /\ startups < MaxStartups
    /\ columns' = [table \in DOMAIN Tables |->
                        EnsureTable(columns[table], columns[table], Tables[table])]
    /\ startups' = startups + 1
    /\ UNCHANGED <<patients, visits, users, seq, txn, resp, foreign_keys, now,
                   ever_visited>>
    /\ UNCHANGED <<supabase, client, credentials>>

----------------------------------------------------------------------------
(* The initial state: clinic.db has just been created by the server's      *)
(* first start (the CREATE TABLE statements and ensureColumns have run),   *)
(* and the client's App has mounted: its effect has called                 *)
(* fetchSummary(reportMonth, reportYear) and fetchPatients().              *)

InitTables ==
    /\ patients = {}
    /\ visits = {}
    /\ users = {}
    /\ seq = [patients |-> 0, visits |-> 0, users |-> 0]
    /\ txn = NoTxn
    /\ resp = NoResp
    /\ foreign_keys \in BOOLEAN
    /\ now = StartDate
    /\ ever_visited = {}
    /\ credentials = {}
    /\ supabase_patients = {}
    /\ supabase_visits = {}
    /\ supabase_seq = [patients |-> 0, visits |-> 0]

InitClient ==
    /\ reportMonth = ToDigits(StartDate[2])  \* new Date().getMonth() + 1 + ''
    /\ reportYear = ToDigits(StartDate[1])   \* new Date().getFullYear() + ''
    /\ summary = NoSummary
    /\ searchQuery = ""
    /\ clientPatients = <<>>
    /\ fetching = {FetchSummary(1, ToDigits(StartDate[2]), ToDigits(StartDate[1])),
                   FetchPatients(2, "", NoThen)}
    /\ fetch_seq = 2

Init ==
    /\ InitTables
    /\ InitClient
    /\ columns = CreatedColumns
    /\ startups = 1

----------------------------------------------------------------------------
(* The clock. *)

\* The months from StartDate to t.
MonthsSince(t) == 12 * (t[1] - StartDate[1]) + (t[2] - StartDate[2])

\* A month passes.
Tick ==
    /\ txn.step = "none"
    /\ MonthsSince(now) < MaxTicks
    /\ now' = IF now[2] = 12 THEN <<now[1] + 1, 1>> ELSE <<now[1], now[2] + 1>>
    /\ UNCHANGED <<patients, visits, users, seq, txn, resp, foreign_keys, ever_visited>>
    /\ UNCHANGED supabase
    /\ UNCHANGED <<client, schema, credentials>>

----------------------------------------------------------------------------
(* Request inputs. *)

\* Number.prototype.toString of a natural number, from its digits.
RECURSIVE ToText(_)
ToText(digits) ==
    IF digits = <<>> THEN "" ELSE digits[1] \o ToText(Tail(digits))

\* Math.floor(Math.random() * k) for the value random[1] / random[2] of
\* Math.random(), computed from the quotient and the remainder of k by
\* random[2] so that no intermediate product leaves the integers at hand.
FloorOfProduct(random, k) ==
    random[1] * (k \div random[2]) + (random[1] * (k % random[2])) \div random[2]

\* Mutant of GeneratedMrn: Math.floor(Math.random() * 1000000).
GeneratedMrn_FromZero(random) ==
    ToText(ToDigits(FloorOfProduct(random, 1000000)))

\* Math.floor(100000 + Math.random() * 900000).toString(); Math.random() is
\* in [0, 1).
GeneratedMrn(random) ==
    ToText(ToDigits(100000 + FloorOfProduct(random, 900000)))

\* Values of Math.random().
RandomDraws == {<<1, 900000>>, <<2, 900000>>}

RandomMrns == {GeneratedMrn(random) : random \in RandomDraws}

PatientBody(mrn, name, gender, conditions, patient_type, created_at) ==
    [mrn |-> mrn, name |-> name, age |-> "45", gender |-> gender,
     conditions |-> conditions, patient_type |-> patient_type,
     created_at |-> created_at, other |-> ""]

RegisterBodies ==
    {PatientBody(m, "Abebe", "Male", "Hypertension", t, NoDate) :
        m \in {Undefined, "100001"}, t \in {Undefined, "Repeat"}}
    \cup {PatientBody("100002", Undefined, "Male", "Hypertension", "New", NoDate)}

UpdateBodies ==
    {PatientBody(m, "Abebe", "Male", "Hypertension", t, NoDate) :
        m \in {Null, "100002"}, t \in {"New", "Repeat"}}
    \cup {PatientBody("100001", Undefined, "Male", "Hypertension", "New", NoDate)}

IdParams == {<<"1">>, <<"2">>, <<"1", "x">>, <<"x">>}

VisitBodies ==
    {[patient_id |-> p, systolic_bp |-> "", notes |-> n] :
        p \in {1, 2, NullId, UndefinedId}, n \in {"", Undefined}}

SignupBodies ==
    {[username |-> u, password |-> "secret", full_name |-> Undefined,
      role |-> Undefined] : u \in {"abebe", "admin", ""}}

Next ==
    \/ \E body \in RegisterBodies, random \in RandomMrns : PostPatient(body, random)
    \/ \E idparam \in IdParams, body \in UpdateBodies : PutPatient(idparam, body)
    \/ \E body \in VisitBodies : PostVisit(body)
    \/ \E idparam \in IdParams : DeleteVisit(idparam)
    \/ \E idparam \in IdParams : DeletePatientBegin(idparam)
    \/ TxnDeleteVisits
    \/ TxnDeletePatient
    \/ TxnCommit
    \/ TxnThrow

Spec == Init /\ [][Next]_vars

\* The same server built with foreign-key enforcement on, as the SQLite
\* bundled with better-sqlite3 is compiled.
InitForeignKeys == Init /\ foreign_keys = TRUE

SpecForeignKeys == InitForeignKeys /\ [][Next]_vars

\* Registration, visit recording and visit deletion alone.
NextVisits ==
    \/ \E body \in RegisterBodies, random \in RandomMrns : PostPatient(body, random)
    \/ \E body \in VisitBodies : PostVisit(body)
    \/ \E idparam \in IdParams : DeleteVisit(idparam)

SpecVisits == Init /\ [][NextVisits]_vars

\* The two routes that insert into a table with a UNIQUE column.
NextUnique ==
    \/ \E body \in RegisterBodies, random \in RandomMrns : PostPatient(body, random)
    \/ \E body \in SignupBodies : Signup(body)

SpecUnique == Init /\ [][NextUnique]_vars

\* Reporting: registrations and updates whose fields the report reads, over
\* two months, and the report itself.
SummaryRegisterBodies ==
    {PatientBody(Undefined, "Abebe", "Male", "Hypertension", Undefined, NoDate),
     PatientBody(Undefined, "Sara", "Female", "Diabetes", "Repeat", NoDate),
     PatientBody(Undefined, "Abebe", "Male", "Hypertension, Diabetes", "New", NoDate),
     PatientBody(Undefined, "Sara", Null, Null, "Repeat", NoDate)}

SummaryUpdateBodies ==
    {PatientBody(Null, "Abebe", "Other", "", Null, NoDate)}

SummaryQueries ==
    {[month |-> <<>>, year |-> <<>>],
     [month |-> <<"1">>, year |-> <<>>],
     [month |-> <<"1", "2">>, year |-> <<"2", "0", "2", "4">>],
     [month |-> <<"1">>, year |-> <<"2", "0", "2", "4">>],
     [month |-> <<"1">>, year |-> <<"2", "0", "2", "5">>]}

NextSummary ==
    \/ \E body \in SummaryRegisterBodies, random \in RandomMrns :
            PostPatient(body, random)
    \/ \E idparam \in IdParams, body \in SummaryUpdateBodies :
            PutPatient(idparam, body)
    \/ Tick
    \/ \E q \in SummaryQueries : GetSummary(q)

SpecSummary == InitForeignKeys /\ [][NextSummary]_vars

\* Reporting on visits: registration, visit recording with and without a
\* patient named, the clock and the report.
ReportRegisterBodies ==
    {PatientBody(Undefined, "Abebe", "Male", "Hypertension", Undefined, NoDate)}

ReportVisitBodies ==
    {[patient_id |-> p, systolic_bp |-> "", notes |-> ""] : p \in {1, NullId}}

ReportQueries ==
    {[month |-> <<>>, year |-> <<>>],
     [month |-> <<"1", "2">>, year |-> <<"2", "0", "2", "4">>],
     [month |-> <<"1">>, year |-> <<"2", "0", "2", "5">>]}

NextReport ==
    \/ \E body \in ReportRegisterBodies, random \in RandomMrns :
            PostPatient(body, random)
    \/ \E body \in ReportVisitBodies : PostVisit(body)
    \/ Tick
    \/ \E q \in ReportQueries : GetSummary(q)

SpecReport == InitForeignKeys /\ [][NextReport]_vars

\* The patient list: registration, visit recording and deletion, the clock,
\* the list and the search.
ListRegisterBodies ==
    {PatientBody(Undefined, "Abebe", "Male", "Hypertension", Undefined, NoDate),
     PatientBody(Undefined, "Sara", "Female", "Diabetes", Undefined, NoDate)}

ListVisitBodies ==
    {[patient_id |-> p, systolic_bp |-> "", notes |-> ""] : p \in {1, 2}}

ListSearches == {Undefined, "sara", "Diabetes", "100001"}

NextList ==
    \/ \E body \in ListRegisterBodies, random \in RandomMrns :
            PostPatient(body, random)
    \/ \E body \in ListVisitBodies : PostVisit(body)
    \/ \E idparam \in IdParams : DeleteVisit(idparam)
    \/ Tick
    \/ GetPatients
    \/ \E q \in ListSearches : SearchPatients(q)

SpecList == InitForeignKeys /\ [][NextList]_vars

\* The two ways a visit is created: the server's routes and the client's
\* handlers, each with its registration.
PathRegisterBodies ==
    {PatientBody(Undefined, "Abebe", "Male", "Hypertension", Undefined, NoDate)}

PathVisitBodies ==
    {[patient_id |-> 1, systolic_bp |-> v, notes |-> ""] :
        v \in {"", Undefined, "0", "120"}}

NewPatientForms ==
    {[mrn |-> "", name |-> "Abebe", age |-> "45", gender |-> "Male",
      conditions |-> <<"Hypertension">>, patient_type |-> t, other |-> ""] :
        t \in {"New", "Repeat"}}

NewVisitForms ==
    {[systolic_bp |-> v, notes |-> ""] : v \in {<<>>, <<"0">>, <<"1", "2", "0">>}}

NextPaths ==
    \/ \E body \in PathRegisterBodies, random \in RandomMrns :
            PostPatient(body, random)
    \/ \E body \in PathVisitBodies : PostVisit(body)
    \/ \E newPatient \in NewPatientForms, random \in RandomMrns, accepted \in BOOLEAN :
            HandleCreatePatient(newPatient, random, accepted)
    \/ \E selectedId \in 1..MaxPatients, newVisit \in NewVisitForms,
          accepted \in BOOLEAN :
            HandleCreateVisit(selectedId, newVisit, accepted)

SpecPaths == InitForeignKeys /\ [][NextPaths]_vars

\* Updates of patients that have visits, over several months.
UpdateVisitBodies == {[patient_id |-> 1, systolic_bp |-> "", notes |-> ""]}

UpdateIdParams == {<<"1">>, <<"2">>, <<"1", "x">>}

NextUpdate ==
    \/ \E body \in ReportRegisterBodies, random \in RandomMrns :
            PostPatient(body, random)
    \/ \E idparam \in UpdateIdParams, body \in UpdateBodies : PutPatient(idparam, body)
    \/ \E body \in UpdateVisitBodies : PostVisit(body)
    \/ Tick

SpecUpdate == InitForeignKeys /\ [][NextUpdate]_vars

\* Registration alone, with bodies that lack a field or carry an age out of
\* range next to bodies that are complete.
CompleteBody == PatientBody(Undefined, "Abebe", "Male", "Hypertension", "New", NoDate)

ValidationBodies ==
    {CompleteBody}
    \cup {[CompleteBody EXCEPT !.name = v] : v \in {"", Null, Undefined}}
    \cup {[CompleteBody EXCEPT !.gender = v] : v \in {"", Null, Undefined}}
    \cup {[CompleteBody EXCEPT !.conditions = v] : v \in {"", Null, Undefined}}
    \cup {[CompleteBody EXCEPT !.patient_type = v] : v \in {"", Null, Undefined}}
    \cup {[CompleteBody EXCEPT !.age = v] : v \in {"0", "1", "99", "100", Null, Undefined}}

NextValidation ==
    \E body \in ValidationBodies, random \in RandomMrns : PostPatient(body, random)

SpecValidation == InitForeignKeys /\ [][NextValidation]_vars

\* Registration with and without an MRN, on the server and in the client,
\* with Math.random() at both ends of its range.
MrnDraws == {<<0, 1>>, <<1, 2>>, <<899999, 900000>>}

MrnRegisterBodies ==
    {[CompleteBody EXCEPT !.mrn = m] : m \in {Undefined, Null, "", "12345", "0"}}

MrnPatientForms ==
    {[mrn |-> m, name |-> "Abebe", age |-> "45", gender |-> "Male",
      conditions |-> <<"Hypertension">>, patient_type |-> "New", other |-> ""] :
        m \in {"", "12345"}}

NextMrn ==
    \/ \E body \in MrnRegisterBodies, random \in MrnDraws :
            PostPatient(body, GeneratedMrn(random))
    \/ \E newPatient \in MrnPatientForms, random \in MrnDraws, accepted \in BOOLEAN :
            HandleCreatePatient(newPatient, GeneratedMrn(random), accepted)

SpecMrn == InitForeignKeys /\ [][NextMrn]_vars

\* Databases in use for a while: the same rows in clinic.db and in the
\* Supabase project.
StoredPatient(id, mrn, name, gender, conditions, patient_type, created_at) ==
    [id |-> id, mrn |-> mrn, name |-> name, age |-> "45", gender |-> gender,
     conditions |-> conditions, patient_type |-> patient_type,
     created_at |-> created_at, other |-> ""]

StoredVisit(id, patient_id, visit_date) ==
    [id |-> id, patient_id |-> patient_id, visit_date |-> visit_date,
     systolic_bp |-> Null, notes |-> ""]

Abebe == StoredPatient(1, "100001", "Abebe", "Male", "Hypertension, Diabetes", "Repeat",
                       <<2024, 12, 1>>)
Sara == StoredPatient(2, "100002", "Sara", "Female", "Diabetes", "New", <<2024, 1, 15>>)
Third == StoredPatient(3, "12345", "Sara", "Other", "", "New", <<2024, 12, 2>>)
Unfilled == StoredPatient(3, "12345", "Sara", Null, Null, "New", <<2024, 11, 20>>)

\* The days of December 2024 on which Abebe has a visit in the busy store.
VisitDays == 1..(RecentLimit + 1)

Stores ==
    {[patients |-> {}, visits |-> {}],
     [patients |-> {Abebe}, visits |-> {StoredVisit(1, 1, <<2024, 12, 1>>)}],
     [patients |-> {Abebe, Sara},
      visits |-> {StoredVisit(1, 2, <<2024, 1, 15>>), StoredVisit(2, 1, <<2024, 12, 1>>),
                  StoredVisit(3, 1, <<2024, 12, 8>>)}],
     [patients |-> {Abebe, Sara, Third},
      visits |-> {StoredVisit(1, 2, <<2024, 1, 15>>), StoredVisit(2, 3, <<2024, 12, 2>>)}],
     [patients |-> {Abebe, Sara, Unfilled}, visits |-> {}],
     [patients |-> {Abebe},
      visits |-> {StoredVisit(d, 1, <<2024, 12, d>>) : d \in VisitDays}]}

InitStores ==
    /\ \E store \in Stores :
        /\ patients = store.patients
        /\ supabase_patients = store.patients
        /\ visits = store.visits
        /\ supabase_visits = store.visits
        /\ seq = [patients |-> Cardinality(store.patients),
                  visits |-> Cardinality(store.visits), users |-> 0]
        /\ supabase_seq = [patients |-> Cardinality(store.patients),
                           visits |-> Cardinality(store.visits)]
        /\ ever_visited = {v.patient_id : v \in store.visits}
    /\ users = {}
    /\ credentials = {}
    /\ txn = NoTxn
    /\ resp = NoResp
    /\ foreign_keys = TRUE
    /\ now = StartDate
    /\ InitClient
    /\ columns = CreatedColumns
    /\ startups = 1

\* The ids of the calls of fetchSummary and fetchPatients.
FetchIds == 1..(MaxFetches + 2 * (MaxPatients + MaxVisits))

\* The dashboard: the month and year selects of the client and the responses
\* of its fetchSummary calls, next to the server's report on the same rows.
DashboardMonths == {<<"1">>, <<"1", "2">>}

DashboardYears == {<<"2", "0", "2", "4">>, <<"2", "0", "2", "5">>}

DashboardQueries ==
    {[month |-> m, year |-> y] : m \in DashboardMonths, y \in DashboardYears}
    \cup {[month |-> <<"1", "1">>, year |-> <<"2", "0", "2", "4">>],
          [month |-> <<>>, year |-> <<>>]}

NextDashboard ==
    \/ \E month \in DashboardMonths : SelectMonth(month)
    \/ \E year \in DashboardYears : SelectYear(year)
    \/ \E id \in FetchIds : FetchSummaryPatients(id)
    \/ \E id \in FetchIds : FetchSummaryVisits(id)
    \/ \E q \in DashboardQueries : GetSummary(q)

SpecDashboard == InitStores /\ [][NextDashboard]_vars

\* The patient list: the search boxes of the client, the visit form and the
\* responses of the fetchPatients calls.
SearchTexts == {"", "sara", "Diabetes"}

SearchVisitForms == {[systolic_bp |-> <<"1", "2", "0">>, notes |-> ""]}

NextSearch ==
    \/ \E text \in SearchTexts : ChangeSearch(text)
    \/ \E id \in FetchIds : FetchPatientsData(id)
    \/ \E selectedId \in 1..MaxPatients, newVisit \in SearchVisitForms,
          accepted \in BOOLEAN :
            HandleCreateVisit(selectedId, newVisit, accepted)

SpecSearch == InitStores /\ [][NextSearch]_vars

\* The two routes that make user rows.
LoginBodies ==
    {[username |-> u, password |-> w] :
        u \in {"abebe", "admin", "Admin", ""},
        w \in {"secret", "wrong", ""} \cup LongPasswords}

NextAuth ==
    \/ \E body \in SignupBodies : Signup(body)
    \/ \E body \in LoginBodies : Login(body)

SpecAuth == Init /\ [][NextAuth]_vars

\* The startup migration on databases made by earlier versions of the
\* server: each table has the columns ensureColumns does not look for and
\* some of those it does.
ListedColumns(table) == {Tables[table][i] : i \in 1..Len(Tables[table])}

SampledColumns ==
    [users |-> {"role"},
     patients |-> {"mrn", "region", "cvd_treatment_type"},
     visits |-> {"heart_rate", "hba1c", "complications"}]

OldColumns(table) ==
    {(CreatedColumns[table] \ ListedColumns(table)) \cup some \cup others :
        some \in SUBSET SampledColumns[table],
        others \in {{}, ListedColumns(table) \ SampledColumns[table]}}

OldSchemas ==
    [users : OldColumns("users"), patients : OldColumns("patients"),
     visits : OldColumns("visits")]

InitOldDatabase ==
    /\ InitTables
    /\ InitClient
    /\ columns \in OldSchemas
    /\ startups = 0

NextMigration == EnsureColumns

SpecMigration == InitOldDatabase /\ [][NextMigration]_vars

----------------------------------------------------------------------------
(* Properties. *)

\* The row of patient pid in a set of rows (pid must be there).
PatientRow(rows, pid) == CHOOSE p \in rows : p.id = pid

\* The patients that are in the table before and after a step.
Staying == {p.id : p \in patients} \cap {p.id : p \in patients'}

\* C1, as the spec states it: a patient's patient_type is "New" as long as no
\* visit has ever been recorded for them, and "Repeat" from the first recorded
\* visit on, whatever visits are deleted later.
C1_NewUntilFirstVisit ==
    \A p \in patients :
        p.patient_type = IF p.id \in ever_visited THEN "Repeat" ELSE "New"

\* C1, amended: under registration, visit recording and visit deletion, a
\* patient whose patient_type is "New" keeps it until a POST /api/visits
\* request naming them is processed, and a patient a visit was recorded for
\* is "Repeat" in every later state, whatever visits are deleted.
C1_RepeatOnceVisited ==
    /\ [](\A p \in patients : p.id \in ever_visited => p.patient_type = "Repeat")
    /\ [][\A pid \in Staying :
            (/\ PatientRow(patients, pid).patient_type = "New"
             /\ PatientRow(patients', pid).patient_type # "New")
            => (resp'.op = "POST /api/visits" /\ resp'.arg = pid)]_vars

\* C1 witness: a patient is still Repeat after the deletion of their only visit.
C1_Witness ==
    /\ resp.op = "DELETE /api/visits/:id"
    /\ resp.status = 200
    /\ \E p \in patients :
        /\ p.id \in ever_visited
        /\ p.patient_type = "Repeat"
        /\ VisitsOf(visits, p.id) = {}

\* C2, as the spec states it: a patient's patient_type changes only from New
\* to Repeat and only in the step that creates that patient's first visit.
C2_OnlyNewToRepeatAtFirstVisit ==
    [][\A pid \in Staying :
        PatientRow(patients, pid).patient_type # PatientRow(patients', pid).patient_type
        => (/\ PatientRow(patients, pid).patient_type = "New"
            /\ PatientRow(patients', pid).patient_type = "Repeat"
            /\ pid \notin ever_visited
            /\ pid \in ever_visited')]_vars

\* C2, amended: a patient's patient_type changes only while a POST /api/visits
\* request naming that patient is processed, which sets it to Repeat, or by a
\* successful PUT /api/patients/:id of that patient, which sets it to the
\* request's patient_type (Repeat can go back to New that way); registration,
\* visit deletion and patient deletion never change the patient_type of a
\* patient that stays in the table.
C2_ChangedByVisitOrUpdateOnly ==
    [][\A pid \in Staying :
        PatientRow(patients, pid).patient_type # PatientRow(patients', pid).patient_type
        => \/ /\ resp'.op = "POST /api/visits"
              /\ resp'.arg = pid
              /\ PatientRow(patients', pid).patient_type = "Repeat"
           \/ /\ resp'.op = "PUT /api/patients/:id"
              /\ resp'.arg = pid
              /\ resp'.status = 200]_vars

\* C2 witness: an update has set a patient with a recorded visit back to New.
C2_Witness ==
    /\ resp.op = "PUT /api/patients/:id"
    /\ resp.status = 200
    /\ \E p \in patients :
        /\ p.id = resp.arg
        /\ p.id \in ever_visited
        /\ VisitsOf(visits, p.id) # {}
        /\ p.patient_type = "New"

\* C3: a successful DELETE /api/patients/:id removes the row of patient P and
\* every visit whose patient_id is P, and leaves every other patient row and
\* every visit of every other patient as it was.
C3_DeletePatientCascades ==
    /\ [][(txn.step # "none" /\ resp'.status = 200)
          => /\ patients' = {p \in patients : p.id # txn.id}
             /\ visits' = {v \in visits : v.patient_id # txn.id}]_vars
    /\ []((resp.op = "DELETE /api/patients/:id" /\ resp.status = 200)
          => /\ resp.arg \notin PatientIds
             /\ VisitsOf(visits, resp.arg) = {})

\* C3 witness: a patient with a visit was deleted while another patient and
\* that patient's visit stayed.
C3_Witness ==
    /\ resp.op = "DELETE /api/patients/:id"
    /\ resp.status = 200
    /\ resp.arg \in ever_visited
    /\ \E p \in patients : VisitsOf(visits, p.id) # {}

\* C4: patient deletion is atomic.  While the transaction runs the database
\* other requests read is unchanged; the step that ends it either leaves the
\* database as it was (the patient and all its visits still there) or removes
\* the patient together with all its visits; and inside the transaction the
\* patient row is never gone while one of its visits is still there.
C4_DeletePatientAtomic ==
    /\ [][txn.step # "none"
          => \/ UNCHANGED <<patients, visits>>
             \/ /\ txn'.step = "none"
                /\ resp'.status = 200
                /\ txn.id \notin {p.id : p \in patients'}
                /\ VisitsOf(visits', txn.id) = {}]_vars
    /\ []((txn.step # "none" /\ txn.id \in PatientIds
            /\ txn.id \notin {p.id : p \in txn.patients})
          => VisitsOf(txn.visits, txn.id) = {})

\* C4 witness: a deletion of a patient that has visits failed, and the
\* patient and the visits are still there.
C4_Witness ==
    /\ resp.op = "DELETE /api/patients/:id"
    /\ resp.status = 500
    /\ resp.arg \in PatientIds
    /\ VisitsOf(visits, resp.arg) # {}

\* C5: every stored visit's patient_id is the id of a patient row.
C5_EveryVisitHasItsPatient ==
    \A v \in visits : v.patient_id \in PatientIds

\* C8: deleting a visit id that is no visit's id is answered 404 "Visit not
\* found" and changes no patient and no visit.
C8_MissingVisitIs404 ==
    [][(/\ resp'.op = "DELETE /api/visits/:id"
        /\ resp'.arg # NaN
        /\ resp'.arg \notin VisitIds)
       => /\ resp'.status = 404
          /\ resp'.error = "Visit not found"
          /\ UNCHANGED <<patients, visits>>]_vars

\* C8 witness: a 404 from DELETE /api/visits/:id while other visits exist.
C8_Witness ==
    /\ resp.op = "DELETE /api/visits/:id"
    /\ resp.status = 404
    /\ resp.arg \notin VisitIds
    /\ visits # {}

\* C9: a request refused by a UNIQUE constraint (a patient's mrn, a user's
\* username) is answered 400 with a message of its own and changes no table.
C9_UniqueViolationIs400 ==
    [][resp'.thrown = "SQLITE_CONSTRAINT_UNIQUE"
       => /\ resp'.status = 400
          /\ resp'.error # "Internal server error"
          /\ UNCHANGED <<patients, visits, users>>]_vars

C6_NewPlusRepeatIsTotal ==
    resp.op = "GET /api/reports/summary"
    => resp.body.newPatients + resp.body.repeatPatients = resp.body.totalPatients

\* Whether a conditions text contains the word, letter for letter.
Contains(text, word) ==
    /\ text # Null
    /\ \E i \in 1..Len(Chars(text)) : Chars(text)[i] = word

\* What the patient adds to each condition bucket of a summary: the bucket
\* of the summary less the bucket of the summary of the table without them.
Added(report, p, q) ==
    LET without == Summary(patients \ {p}, q).conditionCounts
        with == report.conditionCounts
    IN  [hypertension_only |-> with.hypertension_only - without.hypertension_only,
         diabetes_only |-> with.diabetes_only - without.diabetes_only,
         both |-> with.both - without.both]

\* C7: in a summary, a patient of the window whose conditions contain both
\* "Hypertension" and "Diabetes" adds 1 to both and nothing to the two "only"
\* buckets; one whose conditions contain "Hypertension" and not "Diabetes"
\* adds 1 to hypertension_only alone; one whose conditions contain "Diabetes"
\* and not "Hypertension" adds 1 to diabetes_only alone.
C7_ConditionBuckets ==
    resp.op = "GET /api/reports/summary"
    => \A p \in PatientsInWindow(patients, resp.arg) :
        LET h == Contains(p.conditions, "Hypertension")
            d == Contains(p.conditions, "Diabetes")
            added == Added(resp.body, p, resp.arg)
        IN  /\ (h /\ d) =>
                added = [hypertension_only |-> 0, diabetes_only |-> 0, both |-> 1]
            /\ (h /\ ~d) =>
                added = [hypertension_only |-> 1, diabetes_only |-> 0, both |-> 0]
            /\ (d /\ ~h) =>
                added = [hypertension_only |-> 0, diabetes_only |-> 1, both |-> 0]

\* C7 witness: a summary of a window that holds a patient with both
\* conditions and a patient with one, while another patient is outside it.
C7_Witness ==
    /\ resp.op = "GET /api/reports/summary"
    /\ HasWindow(resp.arg)
    /\ resp.body.conditionCounts.both = 1
    /\ resp.body.conditionCounts.hypertension_only + resp.body.conditionCounts.diabetes_only = 1
    /\ resp.body.totalPatients = 2

\* The number an age of a request body denotes.
AgeNumber(age) ==
    CASE age = "0" -> 0 [] age = "1" -> 1 [] age = "45" -> 45
      [] age = "99" -> 99 [] age = "100" -> 100

\* Whether a registration body lacks a required field (the key is absent,
\* null or the empty string) or has an age outside 1..99.
LacksRequired(body) ==
    \/ \E v \in {body.name, body.gender, body.conditions, body.patient_type, body.age} :
            Falsy(v)
    \/ AgeNumber(body.age) \notin 1..99

\* C11: a registration request that lacks name, gender, conditions or
\* patient_type, or whose age is outside 1..99, is answered 400 and stores no
\* patient row.
C11_InvalidRegistrationIs400 ==
    [][resp'.op = "POST /api/patients"
       => \A body \in ValidationBodies, random \in RandomMrns :
            (PostPatient(body, random) /\ LacksRequired(body))
            => (resp'.status = 400 /\ UNCHANGED patients)]_vars

\* Whether a timestamp falls in the month and year a query names.
InMonthOfYear(q, t) == t[1] = Decimal(q.year) /\ t[2] = Decimal(q.month)

\* The ids of the visits a summary lists.
Listed(report) == {report.recentVisits[i].id : i \in 1..Len(report.recentVisits)}

\* C12: a summary requested with neither month nor year counts every patient
\* of the store and lists every visit of the store (as long as they are not
\* more than the list's limit); a summary requested with both counts in
\* totalPatients exactly the patients whose created_at falls in that month
\* of that year.
C12_WindowOrEverything ==
    resp.op = "GET /api/reports/summary"
    => /\ (resp.arg.month = <<>> /\ resp.arg.year = <<>>)
            => /\ resp.body.totalPatients = Cardinality(patients)
               /\ Cardinality(visits) <= RecentLimit
                    => Listed(resp.body) = VisitIds
       /\ (resp.arg.month # <<>> /\ resp.arg.year # <<>>)
            => resp.body.totalPatients =
                 Cardinality({p \in patients : InMonthOfYear(resp.arg, p.created_at)})

\* The visits of the store whose visit_date lies in the window of a query
\* (all of them when the query names no month and year).
VisitsInWindow(q) ==
    {v \in visits : (q.month # <<>> /\ q.year # <<>>) => InMonthOfYear(q, v.visit_date)}

\* C14: recentVisits lists only visits of the store whose visit_date lies in
\* the window (any visit when there is no window), latest first, at most 10 of
\* them, no visit of the window that it leaves out is later than one it
\* lists, and every entry carries the name of the patient the visit belongs to.
C14_RecentVisits ==
    resp.op = "GET /api/reports/summary"
    => LET recent == resp.body.recentVisits
           window == VisitsInWindow(resp.arg)
       IN  /\ Listed(resp.body) \subseteq {v.id : v \in window}
           /\ \A i, j \in 1..Len(recent) :
                i < j => DateLE(recent[j].visit_date, recent[i].visit_date)
           /\ Len(recent) <= 10
           /\ \A v \in window : v.id \notin Listed(resp.body)
                => \A i \in 1..Len(recent) : DateLE(v.visit_date, recent[i].visit_date)
           /\ \A i \in 1..Len(recent) :
                \E p \in patients : /\ p.id = recent[i].patient_id
                                    /\ p.name = recent[i].patient_name

\* The patients of the store whose created_at lies in the window of a query
\* (all of them when the query does not name both a month and a year).
WindowOf(q) ==
    {p \in patients : (q.month # <<>> /\ q.year # <<>>) => InMonthOfYear(q, p.created_at)}

\* The number of patients of the window with the condition and the gender.
WithConditionAndGender(q, condition, gender) ==
    Cardinality({p \in WindowOf(q) :
                    Contains(p.conditions, condition) /\ p.gender = gender})

\* The summary of the store without patient p.
Without(p, q) == Summary(patients \ {p}, q)

\* C13: in a summary, genderByCondition counts for each condition of
\* Hypertension and Diabetes and each gender of Male, Female and Other exactly
\* the patients of the window whose conditions contain the condition and whose
\* gender is that gender; a Male patient of the window with conditions
\* "Hypertension, Diabetes" adds 1 to conditionCounts.both, to
\* genderDistribution.male, to genderByCondition.hypertension.male and to
\* genderByCondition.diabetes.male.
C13_GenderByCondition ==
    resp.op = "GET /api/reports/summary"
    => LET by == resp.body.genderByCondition
           q == resp.arg
       IN  /\ by.hypertension.male = WithConditionAndGender(q, "Hypertension", "Male")
           /\ by.hypertension.female = WithConditionAndGender(q, "Hypertension", "Female")
           /\ by.hypertension.other = WithConditionAndGender(q, "Hypertension", "Other")
           /\ by.diabetes.male = WithConditionAndGender(q, "Diabetes", "Male")
           /\ by.diabetes.female = WithConditionAndGender(q, "Diabetes", "Female")
           /\ by.diabetes.other = WithConditionAndGender(q, "Diabetes", "Other")
           /\ \A p \in WindowOf(q) :
                (p.gender = "Male" /\ p.conditions = "Hypertension, Diabetes")
                => LET without == Without(p, q)
                   IN  /\ resp.body.conditionCounts.both = without.conditionCounts.both + 1
                       /\ resp.body.genderDistribution.male
                            = without.genderDistribution.male + 1
                       /\ by.hypertension.male
                            = without.genderByCondition.hypertension.male + 1
                       /\ by.diabetes.male = without.genderByCondition.diabetes.male + 1

\* C13 witness: a summary of a window that holds a Male patient with both
\* conditions and a Female patient with Diabetes.
C13_Witness ==
    /\ resp.op = "GET /api/reports/summary"
    /\ HasWindow(resp.arg)
    /\ resp.body.totalPatients = 2
    /\ resp.body.genderByCondition.hypertension.male = 1
    /\ resp.body.genderByCondition.diabetes.male = 1
    /\ resp.body.genderByCondition.diabetes.female = 1
    /\ resp.body.genderByCondition.hypertension.female = 0
    /\ resp.body.conditionCounts.both = 1

C15_LastVisit ==
    resp.op \in {"GET /api/patients", "GET /api/patients/search"}
    => /\ \A i \in 1..Len(resp.body) :
            LET entry == resp.body[i]
                mine == {v \in visits : v.patient_id = entry.id}
            IN  /\ entry.id \in PatientIds
                /\ IF mine = {} THEN entry.last_visit = NoDate
                   ELSE /\ entry.last_visit \in {v.visit_date : v \in mine}
                        /\ \A v \in mine : DateLE(v.visit_date, entry.last_visit)
       /\ resp.op = "GET /api/patients"
            => {resp.body[i].id : i \in 1..Len(resp.body)} = PatientIds

\* C15 witness: the list after the second visit was deleted shows for its
\* patient the date of the first visit, which is earlier than the current
\* month, and null for a patient without visits.
C15_Witness ==
    /\ resp.op = "GET /api/patients"
    /\ seq.visits = 2
    /\ VisitIds = {1}
    /\ \E i, j \in 1..Len(resp.body) :
        /\ resp.body[i].last_visit = StartDate
        /\ resp.body[j].last_visit = NoDate
    /\ now # StartDate

\* C16: every visit creation that succeeds, by POST /api/visits or by the
\* client's handleCreateVisit, leaves the patient the visit belongs to with
\* patient_type Repeat.
C16_VisitMarksRepeat ==
    [][/\ (resp'.op = "POST /api/visits" /\ resp'.status = 200)
            => \A p \in patients' : p.id = resp'.arg => p.patient_type = "Repeat"
       /\ (resp'.op = "handleCreateVisit" /\ resp'.error = "")
            => \A p \in supabase_patients' :
                    p.id = resp'.arg => p.patient_type = "Repeat"]_vars

\* The visit row a step has added to a table.
AddedVisit(before, after) == CHOOSE v \in after : v \notin before

\* C17: a visit creation that succeeds stores a numeric field submitted as
\* the empty string or left out as null, one submitted as zero as zero, and
\* any other submitted number as it is, on the server's route and in the
\* client's handler.
C17_EmptyIsNullZeroIsZero ==
    [][/\ (resp'.op = "POST /api/visits" /\ resp'.status = 200)
            => \A body \in PathVisitBodies :
                PostVisit(body)
                => AddedVisit(visits, visits').systolic_bp =
                     (IF body.systolic_bp \in {"", Undefined} THEN Null
                      ELSE body.systolic_bp)
       /\ (resp'.op = "handleCreateVisit" /\ resp'.error = "")
            => \A selectedId \in 1..MaxPatients, newVisit \in NewVisitForms :
                HandleCreateVisit(selectedId, newVisit, TRUE)
                => AddedVisit(supabase_visits, supabase_visits').systolic_bp =
                     (IF newVisit.systolic_bp = <<>> THEN NullId
                      ELSE Decimal(newVisit.systolic_bp))]_vars

\* C19: deleting a visit that exists succeeds and removes that visit alone:
\* every other visit and every patient row, the owner's patient_type
\* included, stay as they were.
C19_DeleteVisitRemovesOne ==
    [][(resp'.op = "DELETE /api/visits/:id" /\ resp'.arg \in VisitIds)
       => /\ resp'.status = 200
          /\ visits' = {v \in visits : v.id # resp'.arg}
          /\ Cardinality(visits') = Cardinality(visits) - 1
          /\ patients' = patients]_vars

\* C19 witness: one of two visits was deleted, the other is still there and
\* the patient it was recorded for is still Repeat.
C19_Witness ==
    /\ resp.op = "DELETE /api/visits/:id"
    /\ resp.status = 200
    /\ seq.visits = 2
    /\ Cardinality(visits) = 1
    /\ \E p \in patients : p.id \in ever_visited /\ p.patient_type = "Repeat"

\* The columns of a patient row that an update may set.
Mutable(r) ==
    [mrn |-> r.mrn, name |-> r.name, age |-> r.age, gender |-> r.gender,
     conditions |-> r.conditions, patient_type |-> r.patient_type, other |-> r.other]

\* C20: a PUT /api/patients/:id changes no visit (so every patient's visits
\* stay the same), adds and removes no patient, and changes no patient's id
\* and created_at; when it succeeds, the patient the path names has every
\* mutable column equal to the request's value and every other row is as it
\* was; when it fails, every row is as it was.
C20_UpdateFrame ==
    [][resp'.op = "PUT /api/patients/:id"
       => /\ visits' = visits
          /\ {p.id : p \in patients'} = PatientIds
          /\ \A p \in patients :
                LET after == PatientRow(patients', p.id)
                IN  /\ after.created_at = p.created_at
                    /\ (resp'.arg # p.id \/ resp'.status # 200) => after = p
                    /\ (resp'.arg = p.id /\ resp'.status = 200)
                        => \A idparam \in UpdateIdParams, body \in UpdateBodies :
                            \/ Mutable(after) = Mutable(body)
                            \/ SqlInteger(idparam) # p.id
                            \/ ~PutPatient(idparam, body)]_vars

\* C20 witness: an update has given new values to a patient that was
\* registered in an earlier month and has a visit, while another patient is
\* in the table.
C20_Witness ==
    /\ resp.op = "PUT /api/patients/:id"
    /\ resp.status = 200
    /\ \E p, r \in patients :
        /\ p.id = resp.arg
        /\ r.id # p.id
        /\ p.mrn = Null
        /\ p.created_at # now
        /\ VisitsOf(visits, p.id) # {}

\* Numbers whose texts an MRN is compared with.
Numerals == {0, 12345, 99999, 100000, 100001, 100002, 550000, 999999, 1000000}

\* The natural number a text is the decimal numeral of, NaN when it is none
\* of Numerals.
Numeral(text) ==
    IF \E n \in Numerals : ToText(ToDigits(n)) = text
    THEN CHOOSE n \in Numerals : ToText(ToDigits(n)) = text
    ELSE NaN

\* A text of exactly six decimal digits that denotes 100000..999999.
SixDigits(text) ==
    /\ Len(text) = 6
    /\ Numeral(text) \in 100000..999999

\* C21: a registration that supplies no MRN (the key absent, null or "")
\* stores and returns a text of exactly six decimal digits in 100000..999999;
\* one that supplies an MRN stores and returns it unchanged; the mrn of the
\* response is the mrn of the row the request stored.  The same holds of the
\* row the client's handleCreatePatient inserts and gets back.
C21_MrnGeneratedOrKept ==
    [][/\ (resp'.op = "POST /api/patients" /\ resp'.status = 200)
            => \A body \in MrnRegisterBodies, random \in MrnDraws :
                PostPatient(body, GeneratedMrn(random))
                => LET row == CHOOSE p \in patients' : p \notin patients
                   IN  /\ resp'.body.mrn = row.mrn
                       /\ Falsy(body.mrn) => SixDigits(row.mrn)
                       /\ ~Falsy(body.mrn) => row.mrn = body.mrn
       /\ (resp'.op = "handleCreatePatient" /\ resp'.error = "")
            => \A newPatient \in MrnPatientForms, random \in MrnDraws :
                HandleCreatePatient(newPatient, GeneratedMrn(random), TRUE)
                => LET row == CHOOSE p \in supabase_patients' : p \notin supabase_patients
                   IN  /\ resp'.arg = row.mrn
                       /\ newPatient.mrn = "" => SixDigits(row.mrn)
                       /\ newPatient.mrn # "" => row.mrn = newPatient.mrn]_vars

\* C21 witness: the last registration got the largest MRN the generator
\* gives, next to a patient stored under the MRN its request supplied.
C21_Witness ==
    /\ resp.op = "POST /api/patients"
    /\ resp.status = 200
    /\ resp.body.mrn = "999999"
    /\ \E p \in patients : p.mrn = "12345"
    /\ \E p \in patients : p.mrn = resp.body.mrn /\ p.id = resp.body.id

\* Whether the id of a path is not a number: the text is empty or has a
\* character that is no digit.
Malformed(idparam) == idparam = <<>> \/ DigitPrefix(idparam) # idparam

\* C22: a DELETE of a patient or of a visit whose id is malformed is answered
\* 400 and changes no table; no request with a malformed id deletes a row.
C22_MalformedIdIs400 ==
    [][resp'.op \in {"DELETE /api/visits/:id", "DELETE /api/patients/:id"}
       => \A idparam \in IdParams :
            Malformed(idparam)
            => /\ DeleteVisit(idparam)
                    => (resp'.status = 400 /\ UNCHANGED <<patients, visits>>)
               /\ DeletePatientBegin(idparam)
                    => (resp'.status = 400 /\ UNCHANGED <<patients, visits, txn>>)]_vars

\* C23: a POST /api/visits that ends in an error response, its visit row not
\* inserted, leaves every table as it was; in particular the patient it
\* names keeps its patient_type.
C23_FailedVisitChangesNothing ==
    [][(resp'.op = "POST /api/visits" /\ resp'.status # 200)
       => UNCHANGED <<patients, visits, users, seq>>]_vars

\* The counts of a summary, without its list of visits.
Counts(stats) ==
    [totalPatients |-> stats.totalPatients, newPatients |-> stats.newPatients,
     repeatPatients |-> stats.repeatPatients, conditionCounts |-> stats.conditionCounts,
     genderDistribution |-> stats.genderDistribution,
     genderByCondition |-> stats.genderByCondition]

\* The patients and the visits of the Supabase project that the month and
\* year on display select.
SelectedPatients ==
    {p \in supabase_patients : InClientWindow(reportMonth, reportYear, p.created_at)}

SelectedVisits ==
    {v.id : v \in {w \in supabase_visits :
                        InClientWindow(reportMonth, reportYear, w.visit_date)}}

\* C24: in the client, once no call of fetchSummary is in flight, the summary
\* on display is the summary of the month and year on display, in whatever
\* order the responses came (over rows none of which makes the computation
\* throw).
C24_LatestSelectionShown ==
    (/\ \A f \in fetching : f.fn # "fetchSummary"
     /\ \A p \in supabase_patients : p.conditions # Null)
    => /\ summary # NoSummary
       /\ Counts(summary.stats) = ClientStats(SelectedPatients)
       /\ Listed(summary.stats) = SelectedVisits

\* C25: in the client, once no call of fetchPatients is in flight, the list
\* on display is the result of the search for the searchQuery on display, in
\* whatever order the responses came, the fetchPatients() that follows the
\* creation of a visit included.
C25_ListOfCurrentSearch ==
    (\A f \in fetching : f.fn # "fetchPatients")
    => clientPatients \in ProcessedPatients(supabase_patients, supabase_visits, searchQuery)

\* C26: over the same rows and for the same month and year, the summary the
\* client computes and the summary the server computes have the same counts
\* and the same list of recent visits.
C26_ClientAndServerAgree ==
    (/\ resp.op = "GET /api/reports/summary"
     /\ summary # NoSummary
     /\ resp.arg = [month |-> summary.month, year |-> summary.year])
    => /\ Counts(resp.body) = Counts(summary.stats)
       /\ resp.body.recentVisits = summary.stats.recentVisits

\* The sums that the counts of a summary are bounded by.
OfConditions(stats) ==
    stats.conditionCounts.hypertension_only + stats.conditionCounts.diabetes_only
        + stats.conditionCounts.both

OfGenders(counts) == counts.male + counts.female + counts.other

Bounded(stats) ==
    /\ OfConditions(stats) <= stats.totalPatients
    /\ OfGenders(stats.genderDistribution) <= stats.totalPatients
    /\ OfGenders(stats.genderByCondition.hypertension)
            <= stats.conditionCounts.hypertension_only + stats.conditionCounts.both
    /\ OfGenders(stats.genderByCondition.diabetes)
            <= stats.conditionCounts.diabetes_only + stats.conditionCounts.both

\* C27: in the summary of the server and in the summary of the client, a
\* patient counts in at most one of hypertension_only, diabetes_only and both
\* and in at most one of male, female and other; so the three condition counts
\* and the three gender counts each sum to at most totalPatients, and the
\* gender counts of a condition sum to at most the patients having it.
C27_BucketsDisjoint ==
    /\ resp.op = "GET /api/reports/summary" => Bounded(resp.body)
    /\ summary # NoSummary => Bounded(summary.stats)
    /\ \A p \in patients :
        /\ OfConditions(Summary({p}, [month |-> <<>>, year |-> <<>>])) <= 1
        /\ OfGenders(GenderDistribution({p})) <= 1
    /\ \A p \in supabase_patients :
        p.conditions # Null
        => /\ OfConditions(ClientStats({p})) <= 1
           /\ OfGenders(ClientStats({p}).genderDistribution) <= 1

C27_Witness ==
    /\ resp.op = "GET /api/reports/summary"
    /\ resp.body.totalPatients >= 2
    /\ resp.body.conditionCounts.both >= 1
    /\ summary # NoSummary
    /\ summary.stats = Counts(resp.body) @@ [recentVisits |-> summary.stats.recentVisits]
    /\ OfGenders(summary.stats.genderByCondition.diabetes) >= 1

\* C28: DELETE /api/patients/:id with a numeric id that no patient row has
\* answers 200 with success, never 404, and leaves the patients and the visits
\* as they were; only a statement that throws (SQLITE_BUSY) answers 500, and
\* it changes nothing either.
C28_DeleteOfNoPatient ==
    [][(txn.step # "none" /\ txn.id \notin PatientIds)
       => /\ UNCHANGED <<patients, visits>>
          /\ resp'.status # 404
          /\ txn'.step = "none"
                => \/ resp' = Response("DELETE /api/patients/:id", txn.id, 200, "", "",
                                       [success |-> TRUE])
                   \/ resp' = DeletePatientFailure(txn, "SQLITE_BUSY")]_vars

C28_Witness ==
    /\ resp.op = "DELETE /api/patients/:id"
    /\ resp.status = 200
    /\ resp.arg > seq.patients
    /\ patients # {}
    /\ visits # {}

\* C29: a login with the username of a user row and a password other than
\* the one the row was made with answers 401 and leaves table users as it was;
\* a login with a username that no row has adds one row, with that username,
\* and nothing else; no two rows of table users have the same username.
C29_LoginKeepsUsersApart ==
    [][/\ resp'.op = "POST /api/auth/login"
            => \A body \in LoginBodies :
                (Login(body) /\ ~Falsy(body.username) /\ ~Falsy(body.password))
                => /\ (\E made \in credentials : /\ made.username = body.username
                                                  /\ made.password # body.password)
                        => (resp'.status = 401 /\ UNCHANGED users)
                   /\ ~UsernameTaken(users, body.username)
                        => \E row \in users' :
                            /\ row \notin users
                            /\ row.username = body.username
                            /\ users' = users \cup {row}
       /\ \A u, v \in users' : u.username = v.username => u = v]_vars

\* C30: after ensureColumns has run, every column it looks for is in its
\* table, whichever of them the table had before, and no column is lost; a
\* run on a database that a run has already migrated adds no column and
\* changes no row.
C30_EnsureColumnsIdempotent ==
    [][startups' = startups + 1
       => /\ \A table \in DOMAIN Tables :
                /\ ListedColumns(table) \subseteq columns'[table]
                /\ columns[table] \subseteq columns'[table]
          /\ startups >= 1 => columns' = columns
          /\ UNCHANGED <<patients, visits, users, seq>>]_vars

C30_Witness ==
    /\ startups = MaxStartups
    /\ \A table \in DOMAIN Tables : ListedColumns(table) \subseteq columns[table]
    /\ columns = CreatedColumns

====
